---- MODULE Spec2Model ----
(***************************************************************************)
(* Model of the EventBus of src/src/events.ts (the variant with the        *)
(* registration ledger, debounced emission and default debounce delays,    *)
(* lines 199-572) and of the debounce utility of src/src/utils/index.ts,   *)
(* of the process-wide bus behind createEventBus, and of the delegation    *)
(* of native events in src/src/dom-event-integration.ts.                   *)
(*                                                                         *)
(* Time is discrete.  A timer created by setTimeout is kept as the number  *)
(* of ticks it still has to wait; Tick lets one unit of time pass.  A due  *)
(* timer stays due until its callback runs: time moves on while the        *)
(* caller keeps running, and the callback runs only once it has returned.  *)
(* One synchronous run of JavaScript (a public method call, a timer        *)
(* callback, the settling of a listener's promise together with the        *)
(* microtasks it triggers) is one action.                                  *)
(***************************************************************************)
EXTENDS Integers, Sequences, FiniteSets, TLC

\* ---------------------------------------------------------------- bounds
\* Spec (the bus; debounce only by per-call override)
MaxAttach == 3      \* listeners attached over the whole run (on + registerEvents)
MaxEmits == 1       \* emit calls over the whole run
NumIds == 2         \* size of the pool Math.random draws listener ids from
MaxBatch == 2       \* longest registerEvents batch
MaxOverride == 1    \* largest options.debounce passed to emit, in ticks
\* SpecDebounce (the bus with debounce delays and time)
MaxDelay == 2       \* largest debounce delay, in ticks
DebMaxEmits == 3    \* emit calls over the whole run
\* SpecApi (the registration and removal calls, with the last call observed)
ApiMaxAttach == 2   \* listeners attached over the whole run
ApiMaxBatch == 2    \* longest registerEvents batch
ApiMaxDelay == 1    \* largest debounce property of an entry, in ticks
\* SpecGlobal (the process-wide bus behind createEventBus)
GlobMaxCreates == 3 \* createEventBus calls that return
GlobMaxResets == 2  \* resetGlobalEventBus calls
GlobMaxAttach == 2  \* listeners attached over the whole run
\* SpecDom (the delegation of native events)
DomMaxSetups == 2   \* connect calls that attach handlers
DomMaxNative == 1   \* native events dispatched on the document
DomMaxAttrs == 1    \* attributes of the event target besides data-action
PerMaxEmits == 3    \* emit calls on the bus with two events
PerMaxDelay == 2
BurstMaxNative == 2
\* SpecDomDebounced (the integration with the debounced change handler)
DebDomMaxSetups == 2   \* connect calls that attach handlers
DebDomMaxNative == 2   \* native events dispatched on the document
FaultMaxNative == 1
ReMaxAttach == 3    \* listeners attached, callbacks that call on included
ReMaxEmits == 2     \* dispatches with callbacks that call the bus
ReqMaxRequests == 3 \* handler calls

Events == {"a", "b"}
Ids == 1..NumIds
NoOpt == -1         \* emit called without options.debounce
NoEvent == ""       \* a registration entry whose event name is missing/empty
NotAString == "#42" \* stands for an event name that is the number 42

VARIABLES
    listeners,              \* Map<string, Listener[]>: event -> <<[id, n]>>
    registeredEvents,       \* Set<string>, kept in insertion order
    defaultDebounceConfig,  \* Map<string, number>
    debouncedEmits,         \* Map<string, debounced fn>: event -> its wait
    timer,                  \* the `timeout` of each debounced fn
    attached,               \* number of listeners attached so far
    emits,                  \* one record per emit call, in call order
    window,                 \* per event: the last debounced call and what is
                            \* left of the delay that was in effect for it
    last,                   \* the last call a caller made and what it got
    globalEventBusInstance, \* the module variable: 0 = null, else an EventBus
    heap,                   \* the EventBus objects constructed so far
    refs,                   \* what the createEventBus calls returned
    resets,                 \* number of resetGlobalEventBus calls so far
    hasDocument,            \* typeof window/document !== 'undefined'
    connected,              \* DOMEventIntegration.connected
    boundHandlers,          \* Map<string, EventListener>: type -> handler
    root,                   \* the listeners the document holds: [type, handler]
    setups,                 \* number of setupDOMEventListeners runs so far
    dispatched,             \* number of native events dispatched so far
    domEmits,               \* the emit calls the integration made, in order
    changeTimeouts,         \* the `timeout` of each debouncedChangeHandler
    latestRequestId,        \* createSimpleRequest: the closure variable
    requests,               \* the handler calls made so far: [id, st]
    clock,                  \* the last value performance.now() returned
    flight                  \* the eventListeners.map(...) call in progress

globalVars == <<globalEventBusInstance, heap, refs, resets, hasDocument>>

domVars == <<connected, boundHandlers, root, setups, dispatched, domEmits,
            changeTimeouts>>

reqVars == <<latestRequestId, requests, clock>>

vars == <<listeners, registeredEvents, defaultDebounceConfig, debouncedEmits,
          timer, attached, emits, window, last, globalVars, domVars, reqVars,
          flight>>

\* ------------------------------------------------------------ JS helpers
\* Map.prototype.set
MapSet(m, k, v) == [x \in (DOMAIN m) \cup {k} |-> IF x = k THEN v ELSE m[x]]

\* Map.prototype.delete (the map afterwards)
MapDelete(m, k) == [x \in (DOMAIN m) \ {k} |-> m[x]]

\* new Map()
EmptyMap == [x \in {} |-> 0]

\* Set.prototype.add on an insertion-ordered set
SetAdd(s, k) == IF \E i \in 1..Len(s) : s[i] = k THEN s ELSE Append(s, k)

\* Set.prototype.delete on an insertion-ordered set
SetDelete(s, k) == SelectSeq(s, LAMBDA x : x # k)

\* Set.prototype.has
SetHas(s, k) == \E i \in 1..Len(s) : s[i] = k

\* no timeout pending in a debounced closure
NoTimer == [call |-> 0, left |-> 0]

\* no eventListeners.map(...) call in progress
NoFlight == [e |-> NoEvent]

\* no call observed yet
NoCall == [op |-> "none", args |-> <<>>, ret |-> <<>>, threw |-> FALSE]

\* ------------------------------------------------------------- queries
isEventRegistered(e) == SetHas(registeredEvents, e)

getRegisteredEvents == registeredEvents

getListenerCount(e) == IF e \in DOMAIN listeners THEN Len(listeners[e]) ELSE 0

hasListeners(e) == getListenerCount(e) > 0

\* ------------------------------------------------------ listener registry
\* EventBus.on: create the bucket if absent, push {id, callback} at its end.
\* n numbers the attachments (it stands for the callback object).
\* mutant: the new listener is put at the front of the bucket (unshift)
onUnshift(ls, e, id, n) ==
    LET bucket == IF e \in DOMAIN ls THEN ls[e] ELSE <<>>
    IN  MapSet(ls, e, <<[id |-> id, n |-> n]>> \o bucket)

\* mutant: the bucket is replaced by the new listener (set instead of push)
onReplace(ls, e, id, n) == MapSet(ls, e, <<[id |-> id, n |-> n]>>)

on(ls, e, id, n) ==
    LET bucket == IF e \in DOMAIN ls THEN ls[e] ELSE <<>>
    IN  MapSet(ls, e, Append(bucket, [id |-> id, n |-> n]))

\* eventListeners.filter(listener => listener.id !== listenerId)
filteredListeners(bucket, id) == SelectSeq(bucket, LAMBDA l : l.id # id)

\* EventBus.off: the listeners map afterwards
\* mutant: a bucket in which no listener has the id is deleted
offDropsBucket(ls, e, id) ==
    IF e \in DOMAIN ls
    THEN IF Len(filteredListeners(ls[e], id)) < Len(ls[e])
            /\ Len(filteredListeners(ls[e], id)) > 0
         THEN MapSet(ls, e, filteredListeners(ls[e], id))
         ELSE MapDelete(ls, e)
    ELSE ls

\* mutant: the filtered bucket is stored even when it is empty
offKeepsBucket(ls, e, id) ==
    IF e \in DOMAIN ls
    THEN MapSet(ls, e, filteredListeners(ls[e], id))
    ELSE ls

off(ls, e, id) ==
    IF e \in DOMAIN ls
    THEN IF Len(filteredListeners(ls[e], id)) = 0
         THEN MapDelete(ls, e)
         ELSE MapSet(ls, e, filteredListeners(ls[e], id))
    ELSE ls

\* EventBus.off: its return value
offReturn(ls, e, id) ==
    IF e \in DOMAIN ls
    THEN Len(filteredListeners(ls[e], id)) < Len(ls[e])
    ELSE FALSE

\* -------------------------------------------------------- registerEvents
\* a registration entry as the caller passes it; debounce 0 = property absent
Entries == [event : Events \cup {NoEvent},
            listener : {"function", "other"},
            debounce : 0..MaxDelay]

\* !registration.event || typeof registration.listener !== 'function'
invalidRegistration(r) == r.event = NoEvent \/ r.listener # "function"

\* validateEventRegistrations: TRUE when it throws
validateThrows(batch) == \E i \in 1..Len(batch) : invalidRegistration(batch[i])

\* registerEvents: `return listenerIds`, one id pushed per entry
registerEventsReturn(batch, ids) == [i \in 1..Len(batch) |-> ids[i]]

\* the loop body of registerEvents applied to entries i..Len(batch);
\* st = [ls, reg, cfg], ids = the ids Math.random yields, n0 = attached before
RECURSIVE registerLoop(_, _, _, _, _)
registerLoop(st, batch, ids, n0, i) ==
    IF i > Len(batch) THEN st
    ELSE LET r == batch[i]
             st1 == [ls  |-> on(st.ls, r.event, ids[i], n0 + i),
                     reg |-> SetAdd(st.reg, r.event),
                     cfg |-> IF r.debounce > 0
                             THEN MapSet(st.cfg, r.event, r.debounce)
                             ELSE st.cfg]
         IN  registerLoop(st1, batch, ids, n0, i + 1)

\* --------------------------------------------------------------- dispatch
\* The promise the dispatcher holds for a callback once it has called it:
\* Promise.resolve() when the callback returned a non-promise ("fulfilled"),
\* Promise.reject(error) when it threw ("rejected"), the callback's own
\* promise otherwise, which settles later ("pending").
Outcomes == {"fulfilled", "rejected", "pending"}

\* eventListeners.map(({callback}) => { try { callback(data) ... } catch ... })
\* one promise per listener of the bucket, in bucket order
\* mutant: callback(data) outside the try block, so that the first callback
\* that throws aborts the map and the later ones are never called
invokeNoCatch(bucket, data, outs) ==
    LET stop == IF \E j \in 1..Len(bucket) : outs[j] = "rejected"
                THEN CHOOSE j \in 1..Len(bucket) :
                        /\ outs[j] = "rejected"
                        /\ \A h \in 1..(j - 1) : outs[h] # "rejected"
                ELSE Len(bucket)
    IN  [k \in 1..stop |-> [n |-> bucket[k].n, data |-> data, st |-> outs[k]]]

\* mutant: every callback of the bucket is called twice
invokeTwice(bucket, data, outs) ==
    [k \in 1..(2 * Len(bucket)) |->
        [n |-> bucket[(k + 1) \div 2].n, data |-> data,
         st |-> outs[(k + 1) \div 2]]]

invoke(bucket, data, outs) ==
    [k \in 1..Len(bucket) |->
        [n |-> bucket[k].n, data |-> data, st |-> outs[k]]]

\* Promise.all(promises) as seen by the awaiting emitImmediate.
\* prev = [out, err] is the state of the combined promise, inv the listeners'
\* promises, k the index of the promise that has just settled (0 when
\* Promise.all is called: the promises already rejected are seen in index
\* order).
\* mutant: Promise.allSettled, which never rejects
PromiseAllSettled(prev, inv, k) ==
    IF prev.out # "pending" THEN prev
    ELSE IF \A j \in 1..Len(inv) : inv[j].st # "pending"
    THEN [out |-> "ok", err |-> 0]
    ELSE prev

\* mutant: Promise.any, fulfilled by the first promise that fulfils
PromiseAny(prev, inv, k) ==
    IF prev.out # "pending" THEN prev
    ELSE IF \E j \in 1..Len(inv) : inv[j].st = "fulfilled"
    THEN [out |-> "ok", err |-> 0]
    ELSE IF \A j \in 1..Len(inv) : inv[j].st = "rejected"
    THEN [out |-> "ListenerError", err |-> inv[1].n]
    ELSE prev

PromiseAll(prev, inv, k) ==
    IF prev.out # "pending" THEN prev
    ELSE IF k = 0 /\ \E j \in 1..Len(inv) : inv[j].st = "rejected"
    THEN LET f == CHOOSE j \in 1..Len(inv) :
                    /\ inv[j].st = "rejected"
                    /\ \A h \in 1..(j - 1) : inv[h].st # "rejected"
         IN  [out |-> "ListenerError", err |-> inv[f].n]
    ELSE IF k # 0 /\ inv[k].st = "rejected"
    THEN [out |-> "ListenerError", err |-> inv[k].n]
    ELSE IF \A j \in 1..Len(inv) : inv[j].st = "fulfilled"
    THEN [out |-> "ok", err |-> 0]
    ELSE prev

\* emitImmediate up to its first suspension: [out, err, inv]
\* mutant: an event without a bucket of listeners is treated as unregistered
emitImmediateNeedsBucket(reg, ls, e, data, outs) ==
    IF ~SetHas(reg, e) \/ e \notin DOMAIN ls
    THEN [out |-> "NotRegistered", err |-> 0, inv |-> <<>>]
    ELSE LET inv == invoke(ls[e], data, outs)
             p == PromiseAll([out |-> "pending", err |-> 0], inv, 0)
         IN  [out |-> p.out, err |-> p.err, inv |-> inv]

emitImmediate(reg, ls, e, data, outs) ==
    IF ~SetHas(reg, e)
    THEN [out |-> "NotRegistered", err |-> 0, inv |-> <<>>]
    ELSE IF e \in DOMAIN ls /\ Len(ls[e]) > 0
         THEN LET inv == invoke(ls[e], data, outs)
                  p == PromiseAll([out |-> "pending", err |-> 0], inv, 0)
              IN  [out |-> p.out, err |-> p.err, inv |-> inv]
         ELSE [out |-> "ok", err |-> 0, inv |-> <<>>]

\* the outcomes the callbacks of e's bucket may produce in one dispatch
OutcomeChoices(ls, e) ==
    [1..(IF e \in DOMAIN ls THEN Len(ls[e]) ELSE 0) -> Outcomes]

\* options?.debounce ?? this.defaultDebounceConfig.get(eventKey), 0 = falsy
debounceDelay(cfg, e, opt) ==
    IF opt # NoOpt THEN opt
    ELSE IF e \in DOMAIN cfg THEN cfg[e] ELSE 0


\* the module before the first createEventBus call; doc = a document exists
ModuleLoaded(doc) ==
    /\ globalEventBusInstance = 0
    /\ heap = <<>>
    /\ refs = <<>>
    /\ resets = 0
    /\ hasDocument = doc

InitGlobal == ModuleLoaded(FALSE)

\* new DOMEventIntegration({document, eventBus}); nothing dispatched yet
\* createSimpleRequest() has returned the handler
InitRequest ==
    /\ latestRequestId = 0
    /\ requests = <<>>
    /\ clock = 1

\* no emit is dispatching
InitFlight == flight = NoFlight

InitDom ==
    /\ connected = FALSE
    /\ boundHandlers = EmptyMap
    /\ root = {}
    /\ setups = 0
    /\ dispatched = 0
    /\ domEmits = <<>>
    /\ changeTimeouts = EmptyMap

Init ==
    /\ listeners = EmptyMap
    /\ registeredEvents = <<>>
    /\ defaultDebounceConfig = EmptyMap
    /\ debouncedEmits = EmptyMap
    /\ timer = [e \in Events |-> NoTimer]
    /\ attached = 0
    /\ emits = <<>>
    /\ window = [e \in Events |-> NoTimer]
    /\ last = NoCall
    /\ InitGlobal
    /\ InitDom
    /\ InitRequest
    /\ InitFlight

\* a step of one bus that is not reached through createEventBus or the DOM
OneBus == UNCHANGED <<globalVars, domVars, reqVars, flight>>

\* a step of one bus whose caller is not observed
Unobserved == UNCHANGED last /\ OneBus

\* ---------------------------------------------------------------- actions
\* eventBus.on(e, listener); Math.random yields id
On(e, id) ==
    /\ listeners' = on(listeners, e, id, attached + 1)
    /\ attached' = attached + 1
    /\ UNCHANGED <<registeredEvents, defaultDebounceConfig, debouncedEmits,
                   timer, emits, window>>

\* eventBus.off(e, id)
\* mutant: an event that loses its last listener is unregistered as well
OffUnregisters(e, id) ==
    /\ listeners' = off(listeners, e, id)
    /\ registeredEvents' = IF e \in DOMAIN listeners'
                           THEN registeredEvents
                           ELSE SetDelete(registeredEvents, e)
    /\ UNCHANGED <<defaultDebounceConfig, debouncedEmits,
                   timer, attached, emits, window>>

Off(e, id) ==
    /\ listeners' = off(listeners, e, id)
    /\ UNCHANGED <<registeredEvents, defaultDebounceConfig, debouncedEmits,
                   timer, attached, emits, window>>

\* eventBus.registerEvents(batch); Math.random yields ids[i] for entry i
\* mutant: each entry is validated when the loop reaches it, so the entries
\* before the first malformed one stay registered when the call throws
RegisterEventsLazy(batch, ids) ==
    LET bad == {i \in 1..Len(batch) : invalidRegistration(batch[i])}
        stop == IF bad = {} THEN Len(batch)
                ELSE (CHOOSE i \in bad : \A j \in bad : i <= j) - 1
        st == registerLoop([ls  |-> listeners,
                            reg |-> registeredEvents,
                            cfg |-> defaultDebounceConfig],
                           SubSeq(batch, 1, stop), ids, attached, 1)
    IN  /\ listeners' = st.ls
        /\ registeredEvents' = st.reg
        /\ defaultDebounceConfig' = st.cfg
        /\ attached' = attached + stop
        /\ UNCHANGED <<debouncedEmits, timer, emits, window>>

RegisterEvents(batch, ids) ==
    IF validateThrows(batch)
    THEN UNCHANGED <<listeners, registeredEvents, defaultDebounceConfig,
                     debouncedEmits, timer, attached, emits, window>>
    ELSE /\ LET st == registerLoop([ls  |-> listeners,
                                    reg |-> registeredEvents,
                                    cfg |-> defaultDebounceConfig],
                                   batch, ids, attached, 1)
            IN  /\ listeners' = st.ls
                /\ registeredEvents' = st.reg
                /\ defaultDebounceConfig' = st.cfg
         /\ attached' = attached + Len(batch)
         /\ UNCHANGED <<debouncedEmits, timer, emits, window>>

\* mutant: clear() forgets the registration ledger
ClearListenersOnly ==
    /\ listeners' = EmptyMap
    /\ UNCHANGED <<registeredEvents, defaultDebounceConfig, debouncedEmits,
                   timer, attached, emits, window>>

\* eventBus.clear()
Clear ==
    /\ listeners' = EmptyMap
    /\ registeredEvents' = <<>>
    /\ UNCHANGED <<defaultDebounceConfig, debouncedEmits, timer, attached,
                   emits, window>>

\* eventBus.clearEvent(e)
\* mutant: every bucket and every ledger entry is removed
ClearEventAll(e) ==
    /\ registeredEvents' = <<>>
    /\ listeners' = EmptyMap
    /\ UNCHANGED <<defaultDebounceConfig, debouncedEmits, timer, attached,
                   emits, window>>

ClearEvent(e) ==
    /\ registeredEvents' = SetDelete(registeredEvents, e)
    /\ listeners' = MapDelete(listeners, e)
    /\ UNCHANGED <<defaultDebounceConfig, debouncedEmits, timer, attached,
                   emits, window>>

\* eventBus.setDefaultDebounce(e, d)
SetDefaultDebounce(e, d) ==
    /\ defaultDebounceConfig' = MapSet(defaultDebounceConfig, e, d)
    /\ UNCHANGED <<listeners, registeredEvents, debouncedEmits, timer,
                   attached, emits, window>>

\* the debounced closure of e is called: clearTimeout, then setTimeout(wait)
\* mutant: one timeout shared by the debounced closures of all events
debouncedShared(tm, e, call, wait) ==
    [x \in DOMAIN tm |-> IF x = e THEN [call |-> call, left |-> wait] ELSE NoTimer]

debounced(tm, e, call, wait) == [tm EXCEPT ![e] = [call |-> call, left |-> wait]]

\* the emit record of a call whose timer was replaced before it fired
Dropped(es, call) ==
    IF call = 0 THEN es ELSE [es EXCEPT ![call].st = "dropped"]

\* eventBus.emit(e, data, {debounce: opt}) up to the point where the caller
\* gets control back; outs = what the callbacks do if they are called now
\* mutant: an immediate emit clears the timeout of the event's debounced
\* closure, so the pending emission is never dispatched
EmitCancelsPending(e, data, opt, outs) ==
    /\ LET delay == debounceDelay(defaultDebounceConfig, e, opt)
           call == Len(emits) + 1
           burst == delay > 0 /\ window[e].call # 0 /\ window[e].left > 0
       IN  IF delay > 0
           THEN /\ debouncedEmits' = IF e \in DOMAIN debouncedEmits
                                     THEN debouncedEmits
                                     ELSE MapSet(debouncedEmits, e, delay)
                /\ timer' = debounced(timer, e, call, debouncedEmits'[e])
                /\ window' = [window EXCEPT ![e] = [call |-> call, left |-> delay]]
                /\ emits' = Append(Dropped(emits, timer[e].call),
                                   [e |-> e, data |-> data, eff |-> delay,
                                    deb |-> TRUE, reg |-> isEventRegistered(e),
                                    after |-> IF burst THEN window[e].call ELSE 0,
                                    ret |-> "ok", st |-> "queued",
                                    out |-> "none", err |-> 0, inv |-> <<>>])
           ELSE /\ LET r == emitImmediate(registeredEvents, listeners, e, data, outs)
                   IN  emits' = Append(Dropped(emits, timer[e].call),
                                   [e |-> e, data |-> data, eff |-> delay,
                                    deb |-> FALSE, reg |-> isEventRegistered(e),
                                    after |-> 0,
                                    ret |-> r.out, st |-> "run",
                                    out |-> r.out, err |-> r.err, inv |-> r.inv])
                /\ timer' = [timer EXCEPT ![e] = NoTimer]
                /\ UNCHANGED <<debouncedEmits, window>>
    /\ UNCHANGED <<listeners, registeredEvents, defaultDebounceConfig, attached>>

Emit(e, data, opt, outs) ==
    /\ LET delay == debounceDelay(defaultDebounceConfig, e, opt)
           call == Len(emits) + 1
           burst == delay > 0 /\ window[e].call # 0 /\ window[e].left > 0
       IN  IF delay > 0
           THEN /\ debouncedEmits' = IF e \in DOMAIN debouncedEmits
                                     THEN debouncedEmits
                                     ELSE MapSet(debouncedEmits, e, delay)
                /\ timer' = debounced(timer, e, call, debouncedEmits'[e])
                /\ window' = [window EXCEPT ![e] = [call |-> call, left |-> delay]]
                /\ emits' = Append(Dropped(emits, timer[e].call),
                                   [e |-> e, data |-> data, eff |-> delay,
                                    deb |-> TRUE, reg |-> isEventRegistered(e),
                                    after |-> IF burst THEN window[e].call ELSE 0,
                                    ret |-> "ok", st |-> "queued",
                                    out |-> "none", err |-> 0, inv |-> <<>>])
           ELSE /\ LET r == emitImmediate(registeredEvents, listeners, e, data, outs)
                   IN  emits' = Append(emits,
                                   [e |-> e, data |-> data, eff |-> delay,
                                    deb |-> FALSE, reg |-> isEventRegistered(e),
                                    after |-> 0,
                                    ret |-> r.out, st |-> "run",
                                    out |-> r.out, err |-> r.err, inv |-> r.inv])
                /\ UNCHANGED <<debouncedEmits, timer, window>>
    /\ UNCHANGED <<listeners, registeredEvents, defaultDebounceConfig, attached>>

\* the timer of e's debounced closure fires: func(...args), that is
\* this.emitImmediate(event, debouncedData); nobody holds its promise
Fire(e, outs) ==
    /\ timer[e].call # 0
    /\ timer[e].left = 0
    /\ LET c == timer[e].call
           r == emitImmediate(registeredEvents, listeners, e, emits[c].data, outs)
       IN  emits' = [emits EXCEPT ![c].st = "run", ![c].out = r.out,
                                  ![c].err = r.err, ![c].inv = r.inv]
    /\ timer' = [timer EXCEPT ![e] = NoTimer]
    /\ UNCHANGED <<listeners, registeredEvents, defaultDebounceConfig,
                   debouncedEmits, attached, window>>

\* the promise returned by the k-th listener of emission c settles
Settle(c, k, how) ==
    /\ c \in 1..Len(emits)
    /\ k \in 1..Len(emits[c].inv)
    /\ emits[c].inv[k].st = "pending"
    /\ LET inv == [emits[c].inv EXCEPT ![k].st = how]
           p == PromiseAll([out |-> emits[c].out, err |-> emits[c].err], inv, k)
       IN  emits' = [emits EXCEPT ![c].inv = inv, ![c].out = p.out,
                                  ![c].err = p.err,
                                  ![c].ret = IF emits[c].deb THEN @ ELSE p.out]
    /\ UNCHANGED <<listeners, registeredEvents, defaultDebounceConfig,
                   debouncedEmits, timer, attached, window>>

Elapse(t) == IF t.left > 0 THEN [t EXCEPT !.left = @ - 1] ELSE t

\* one unit of time passes; a due timer stays due until its callback runs
Tick ==
    /\ \E e \in Events : timer[e].call # 0 \/ window[e].left > 0
    /\ timer' = [e \in Events |-> Elapse(timer[e])]
    /\ window' = [e \in Events |-> Elapse(window[e])]
    /\ UNCHANGED <<listeners, registeredEvents, defaultDebounceConfig,
                   debouncedEmits, attached, emits>>

\* the entries callers register when no debounce is used
PlainEntries == {r \in Entries : r.debounce = 0}

BatchesOf(entries, len) == UNION {[1..k -> entries] : k \in 1..len}

\* ------------------------- the bus; debounce only by per-call override
Next ==
    \/ \E e \in Events, id \in Ids :
          attached < MaxAttach /\ On(e, id) /\ Unobserved
    \/ \E e \in Events, id \in Ids : Off(e, id) /\ Unobserved
    \/ \E b \in BatchesOf(PlainEntries, MaxBatch) : \E ids \in [1..Len(b) -> Ids] :
          attached + Len(b) <= MaxAttach /\ RegisterEvents(b, ids) /\ Unobserved
    \/ Clear /\ Unobserved
    \/ \E e \in Events : ClearEvent(e) /\ Unobserved
    \/ \E e \in Events, data \in {Len(emits) + 1}, opt \in {NoOpt} \cup (0..MaxOverride) :
          \E outs \in OutcomeChoices(listeners, e) :
             Len(emits) < MaxEmits /\ Emit(e, data, opt, outs) /\ Unobserved
    \/ \E e \in Events : \E outs \in OutcomeChoices(listeners, e) : Fire(e, outs) /\ Unobserved
    \/ \E c \in 1..MaxEmits, k \in 1..MaxAttach, how \in {"fulfilled", "rejected"} :
          Settle(c, k, how) /\ Unobserved
    \/ Tick /\ Unobserved

Spec == Init /\ [][Next]_vars

\* ------------------------------------------ the bus with debounce and time
\* new EventBus([{event: "a", listener: fn}]): the constructor registers the
\* default events; Math.random yields id
InitDebounce ==
    \E id \in Ids :
       LET st == registerLoop([ls |-> EmptyMap, reg |-> <<>>, cfg |-> EmptyMap],
                              <<[event |-> "a", listener |-> "function",
                                 debounce |-> 0]>>, <<id>>, 0, 1)
       IN  /\ listeners = st.ls
           /\ registeredEvents = st.reg
           /\ defaultDebounceConfig = st.cfg
           /\ debouncedEmits = EmptyMap
           /\ timer = [e \in Events |-> NoTimer]
           /\ attached = 1
           /\ emits = <<>>
           /\ window = [e \in Events |-> NoTimer]
           /\ last = NoCall
           /\ InitGlobal
           /\ InitDom
           /\ InitRequest
           /\ InitFlight

DebEvents == {"a"}

NextDebounce ==
    \/ \E e \in DebEvents, d \in 0..MaxDelay : SetDefaultDebounce(e, d) /\ Unobserved
    \/ \E e \in DebEvents, data \in {Len(emits) + 1}, opt \in {NoOpt} \cup (0..MaxDelay) :
          \E outs \in OutcomeChoices(listeners, e) :
             Len(emits) < DebMaxEmits /\ Emit(e, data, opt, outs) /\ Unobserved
    \/ \E e \in DebEvents : \E outs \in OutcomeChoices(listeners, e) : Fire(e, outs) /\ Unobserved
    \/ \E c \in 1..DebMaxEmits, k \in 1..1, how \in {"fulfilled", "rejected"} :
          Settle(c, k, how) /\ Unobserved
    \/ \E e \in DebEvents : ClearEvent(e) /\ Unobserved
    \/ Tick /\ Unobserved

SpecDebounce == InitDebounce /\ [][NextDebounce]_vars

\* ----------------------------------- two events, each with its own debounce
\* new EventBus([{event: "a", listener: fn}, {event: "b", listener: fn}])
InitPerEvent ==
    LET st == registerLoop([ls |-> EmptyMap, reg |-> <<>>, cfg |-> EmptyMap],
                           <<[event |-> "a", listener |-> "function",
                              debounce |-> 0],
                             [event |-> "b", listener |-> "function",
                              debounce |-> 0]>>, <<1, 1>>, 0, 1)
    IN  /\ listeners = st.ls
        /\ registeredEvents = st.reg
        /\ defaultDebounceConfig = st.cfg
        /\ debouncedEmits = EmptyMap
        /\ timer = [e \in Events |-> NoTimer]
        /\ attached = 2
        /\ emits = <<>>
        /\ window = [e \in Events |-> NoTimer]
        /\ last = NoCall
        /\ InitGlobal
        /\ InitDom
        /\ InitRequest
        /\ InitFlight

\* the listeners return without a promise
Returns == [i \in 1..1 |-> "fulfilled"]

EmitStep ==
    \E e \in Events, opt \in 0..PerMaxDelay :
       /\ Len(emits) < PerMaxEmits
       /\ Emit(e, Len(emits) + 1, opt, Returns)
       /\ Unobserved

FireStep(e) == Fire(e, Returns) /\ Unobserved

TickStep == Tick /\ Unobserved

NextPerEvent ==
    \/ EmitStep
    \/ \E e \in Events : FireStep(e)
    \/ TickStep

\* time passes and due timeouts run
SpecPerEvent ==
    /\ InitPerEvent
    /\ [][NextPerEvent]_vars
    /\ WF_vars(TickStep)
    /\ \A e \in Events : WF_vars(FireStep(e))

\* the due timeout of e's debounced closure runs, whatever its listeners return
FireDue(e) ==
    \E outs \in OutcomeChoices(listeners, e) : Fire(e, outs) /\ Unobserved

\* the bus of Spec on an event loop that lets time pass and runs due timeouts
SpecTimers ==
    /\ Init
    /\ [][Next]_vars
    /\ WF_vars(TickStep)
    /\ \A e \in Events : WF_vars(FireDue(e))

\* ------------- the registration and removal calls, the last one observed
\* the event names a caller may pass
ApiNames == Events \cup {NoEvent, NotAString}

\* the entries a caller may pass to registerEvents: the well-formed ones,
\* one without event name, one whose event name is a number, one whose
\* listener is not a function
RawEntries ==
    [event : {"a"}, listener : {"function"}, debounce : 0..ApiMaxDelay]
    \cup {[event |-> "b", listener |-> "function", debounce |-> 0],
          [event |-> NoEvent, listener |-> "function", debounce |-> 0],
          [event |-> NotAString, listener |-> "function", debounce |-> 0],
          [event |-> "a", listener |-> "other", debounce |-> 0]}

\* the ids Math.random may yield during registerEvents(batch): it is not
\* consulted when the validation throws
IdChoices(batch) ==
    IF validateThrows(batch) THEN {[i \in 1..Len(batch) |-> 1]}
    ELSE [1..Len(batch) -> Ids]

\* const id = eventBus.on(e, listener)
OnCall(e, id) ==
    /\ On(e, id)
    /\ last' = [op |-> "on", args |-> <<e, id>>, ret |-> id, threw |-> FALSE]

\* const removed = eventBus.off(e, id)
OffCall(e, id) ==
    /\ Off(e, id)
    /\ last' = [op |-> "off", args |-> <<e, id>>,
                ret |-> offReturn(listeners, e, id), threw |-> FALSE]

\* const ids = eventBus.registerEvents(batch), or the call throws
RegisterEventsCall(batch, ids) ==
    /\ RegisterEvents(batch, ids)
    /\ last' = [op |-> "registerEvents", args |-> <<batch>>,
                ret |-> IF validateThrows(batch) THEN <<>>
                        ELSE registerEventsReturn(batch, ids),
                threw |-> validateThrows(batch)]

\* EventBus.clearEvent: its return value, that of Map.prototype.delete
\* mutant: the value of registeredEvents.delete is returned
clearEventReturnOfLedger(ls, reg, e) == SetHas(reg, e)

clearEventReturn(ls, reg, e) == e \in DOMAIN ls

\* const removed = eventBus.clearEvent(e); was = what isEventRegistered(e)
\* answered just before the call
ClearEventCall(e) ==
    /\ ClearEvent(e)
    /\ last' = [op |-> "clearEvent", args |-> <<e>>,
                ret |-> clearEventReturn(listeners, registeredEvents, e),
                threw |-> FALSE, was |-> isEventRegistered(e)]

\* eventBus.clear()
ClearCall ==
    /\ Clear
    /\ last' = [op |-> "clear", args |-> <<>>, ret |-> <<>>, threw |-> FALSE]

NextApi ==
    \/ \E e \in Events, id \in Ids :
          attached < ApiMaxAttach /\ OnCall(e, id) /\ OneBus
    \/ \E e \in Events \cup {NotAString}, id \in Ids : OffCall(e, id) /\ OneBus
    \/ \E b \in BatchesOf(RawEntries, ApiMaxBatch) : \E ids \in IdChoices(b) :
          /\ validateThrows(b) \/ attached + Len(b) <= ApiMaxAttach
          /\ RegisterEventsCall(b, ids)
          /\ OneBus
    \/ \E e \in Events \cup {NotAString} : ClearEventCall(e) /\ OneBus
    \/ ClearCall /\ OneBus

SpecApi == Init /\ [][NextApi]_vars

\* ---------------------------------- the process-wide bus of createEventBus
\* the fields of an EventBus object before its constructor body runs; dom is
\* the domIntegration field: "undefined", or an integration that is
\* "connected" or "disconnected"
NewBus == [ls |-> EmptyMap, reg |-> <<>>, cfg |-> EmptyMap, dom |-> "undefined"]

\* the options a caller may pass; defaultDebounce EmptyMap = property absent
Options == [defaultDebounce : {EmptyMap, [e \in {"a"} |-> 1]}, dom : BOOLEAN]

\* the default events a caller may pass; <<>> = argument absent
DefaultEvents ==
    {<<>>} \cup BatchesOf({r \in Entries : /\ r.event = "a"
                                            /\ r.listener = "function"
                                            /\ r.debounce \in {0, 2}}, 1)

\* for (const [event, delay] of Object.entries(dd)) setDefaultDebounce(event, delay)
\* mutant: a default that is stored already is kept
applyDefaultDebounceOnce(cfg, dd) ==
    [x \in (DOMAIN cfg) \cup (DOMAIN dd) |->
        IF x \in DOMAIN cfg THEN cfg[x] ELSE dd[x]]

applyDefaultDebounce(cfg, dd) ==
    [x \in (DOMAIN cfg) \cup (DOMAIN dd) |->
        IF x \in DOMAIN dd THEN dd[x] ELSE cfg[x]]

\* enableDOMIntegration: the domIntegration field afterwards
enableDOMIntegration(dom, doc) ==
    IF dom = "undefined" /\ doc THEN "connected" ELSE dom

\* new EventBus(defaultEvents, options): [threw, bus]
construct(defaultEvents, options, ids, n0, doc) ==
    IF validateThrows(defaultEvents)
    THEN [threw |-> TRUE, bus |-> NewBus]
    ELSE LET st == registerLoop(
                      [ls  |-> NewBus.ls,
                       reg |-> NewBus.reg,
                       cfg |-> applyDefaultDebounce(NewBus.cfg,
                                                    options.defaultDebounce)],
                      defaultEvents, ids, n0, 1)
         IN  [threw |-> FALSE,
              bus |-> [ls |-> st.ls, reg |-> st.reg, cfg |-> st.cfg,
                       dom |-> IF options.dom
                               THEN enableDOMIntegration(NewBus.dom, doc)
                               ELSE NewBus.dom]]

\* createEventBus(defaultEvents, options); a call that returns adds to refs
\* mutant: a new EventBus is constructed on every call
CreateEventBusAlwaysNew(defaultEvents, options, ids) ==
    /\ LET c == construct(defaultEvents, options, ids, attached, hasDocument)
       IN  IF c.threw
           THEN UNCHANGED <<heap, refs, attached, globalEventBusInstance>>
           ELSE /\ heap' = Append(heap, c.bus)
                /\ globalEventBusInstance' = Len(heap) + 1
                /\ refs' = Append(refs, [inst |-> Len(heap) + 1,
                                         epoch |-> resets])
                /\ attached' = attached + Len(defaultEvents)
    /\ UNCHANGED <<resets, hasDocument>>

CreateEventBus(defaultEvents, options, ids) ==
    /\ IF globalEventBusInstance # 0
       THEN LET g == globalEventBusInstance
                b == heap[g]
                cfg1 == applyDefaultDebounce(b.cfg, options.defaultDebounce)
                dom1 == IF options.dom
                        THEN enableDOMIntegration(b.dom, hasDocument)
                        ELSE b.dom
            IN  /\ IF validateThrows(defaultEvents)
                   THEN /\ heap' = [heap EXCEPT ![g] =
                                       [b EXCEPT !.cfg = cfg1, !.dom = dom1]]
                        /\ UNCHANGED <<refs, attached>>
                   ELSE LET st == registerLoop(
                                     [ls |-> b.ls, reg |-> b.reg, cfg |-> cfg1],
                                     defaultEvents, ids, attached, 1)
                        IN  /\ heap' = [heap EXCEPT ![g] =
                                           [ls |-> st.ls, reg |-> st.reg,
                                            cfg |-> st.cfg, dom |-> dom1]]
                            /\ refs' = Append(refs, [inst |-> g,
                                                     epoch |-> resets])
                            /\ attached' = attached + Len(defaultEvents)
                /\ UNCHANGED globalEventBusInstance
       ELSE LET c == construct(defaultEvents, options, ids, attached,
                               hasDocument)
            IN  IF c.threw
                THEN UNCHANGED <<heap, refs, attached, globalEventBusInstance>>
                ELSE /\ heap' = Append(heap, c.bus)
                     /\ globalEventBusInstance' = Len(heap) + 1
                     /\ refs' = Append(refs, [inst |-> Len(heap) + 1,
                                              epoch |-> resets])
                     /\ attached' = attached + Len(defaultEvents)
    /\ UNCHANGED <<resets, hasDocument>>

\* resetGlobalEventBus(), that is EventBus.resetGlobalInstance()
ResetGlobalEventBus ==
    /\ IF globalEventBusInstance # 0
       THEN heap' = [heap EXCEPT ![globalEventBusInstance] =
                       [@ EXCEPT !.ls = EmptyMap,
                                 !.reg = <<>>,
                                 !.dom = IF @ = "connected"
                                         THEN "disconnected" ELSE @]]
       ELSE UNCHANGED heap
    /\ globalEventBusInstance' = 0
    /\ resets' = resets + 1
    /\ UNCHANGED <<refs, hasDocument, attached>>

\* refs[r].registerEvents(batch): a caller uses the r-th returned reference
RegisterEventsThrough(r, batch, ids) ==
    /\ r \in 1..Len(refs)
    /\ LET i == refs[r].inst
           b == heap[i]
       IN  IF validateThrows(batch)
           THEN UNCHANGED <<heap, attached>>
           ELSE LET st == registerLoop([ls |-> b.ls, reg |-> b.reg,
                                        cfg |-> b.cfg],
                                       batch, ids, attached, 1)
                IN  /\ heap' = [heap EXCEPT ![i] =
                                   [b EXCEPT !.ls = st.ls, !.reg = st.reg,
                                             !.cfg = st.cfg]]
                    /\ attached' = attached + Len(batch)
    /\ UNCHANGED <<globalEventBusInstance, refs, resets, hasDocument>>

\* disableDOMIntegration: the domIntegration field afterwards
disableDOMIntegration(dom) == IF dom # "undefined" THEN "undefined" ELSE dom

\* isDOMIntegrationEnabled: this.domIntegration?.isConnected() ?? false
isDOMIntegrationEnabled(dom) == dom = "connected"

\* refs[r].enableDOMIntegration()
EnableDOMIntegrationThrough(r) ==
    /\ r \in 1..Len(refs)
    /\ heap' = [heap EXCEPT ![refs[r].inst].dom =
                   enableDOMIntegration(@, hasDocument)]
    /\ UNCHANGED <<globalEventBusInstance, refs, resets, hasDocument, attached>>

\* refs[r].disableDOMIntegration()
DisableDOMIntegrationThrough(r) ==
    /\ r \in 1..Len(refs)
    /\ heap' = [heap EXCEPT ![refs[r].inst].dom = disableDOMIntegration(@)]
    /\ UNCHANGED <<globalEventBusInstance, refs, resets, hasDocument, attached>>

\* refs[r].isDOMIntegrationEnabled()
isDOMIntegrationEnabledThrough(r) ==
    isDOMIntegrationEnabled(heap[refs[r].inst].dom)

\* refs[r].isEventRegistered(e)
isEventRegisteredThrough(r, e) == SetHas(heap[refs[r].inst].reg, e)

\* a step of the module that touches no bus but those on the heap
OnlyHeap ==
    UNCHANGED <<listeners, registeredEvents, defaultDebounceConfig,
                debouncedEmits, timer, emits, window, domVars, reqVars, flight>>

\* the caller's view of a call made in this step
Observed(op, args, threw) ==
    last' = [op |-> op, args |-> args, ret |-> <<>>, threw |-> threw]

InitModule ==
    /\ listeners = EmptyMap
    /\ registeredEvents = <<>>
    /\ defaultDebounceConfig = EmptyMap
    /\ debouncedEmits = EmptyMap
    /\ timer = [e \in Events |-> NoTimer]
    /\ attached = 0
    /\ emits = <<>>
    /\ window = [e \in Events |-> NoTimer]
    /\ last = NoCall
    /\ \E doc \in BOOLEAN : ModuleLoaded(doc)
    /\ InitDom
    /\ InitRequest
    /\ InitFlight

NextGlobal ==
    \/ \E d \in DefaultEvents, o \in Options : \E ids \in [1..Len(d) -> Ids] :
          /\ Len(refs) < GlobMaxCreates
          /\ attached + Len(d) <= GlobMaxAttach
          /\ CreateEventBus(d, o, ids)
          /\ Observed("createEventBus", <<d, o.defaultDebounce>>, validateThrows(d))
          /\ OnlyHeap
    \/ /\ resets < GlobMaxResets
       /\ ResetGlobalEventBus
       /\ Observed("resetGlobalEventBus", <<>>, FALSE)
       /\ OnlyHeap
    \/ \E r \in 1..GlobMaxCreates, d \in DefaultEvents \cap BatchesOf(PlainEntries, 1) :
       \E ids \in [1..Len(d) -> Ids] :
          /\ attached + Len(d) <= GlobMaxAttach
          /\ RegisterEventsThrough(r, d, ids)
          /\ Observed("registerEvents", <<>>, validateThrows(d))
          /\ OnlyHeap
    \/ \E r \in 1..GlobMaxCreates :
          /\ EnableDOMIntegrationThrough(r)
          /\ Observed("enableDOMIntegration", <<r>>, FALSE)
          /\ OnlyHeap
    \/ \E r \in 1..GlobMaxCreates :
          /\ DisableDOMIntegrationThrough(r)
          /\ Observed("disableDOMIntegration", <<r>>, FALSE)
          /\ OnlyHeap

SpecGlobal == InitModule /\ [][NextGlobal]_vars

\* ------------------------------------------- delegation of native events
\* The strings the integration computes on (attribute names and values) are
\* sequences of characters.
LowerCase ==
    {"a", "b", "c", "d", "e", "f", "g", "h", "i", "j", "k", "l", "m",
     "n", "o", "p", "q", "r", "s", "t", "u", "v", "w", "x", "y", "z"}

\* String.prototype.toUpperCase on one lower-case letter
toUpperCase(c) ==
    CASE c = "a" -> "A"
      [] c = "b" -> "B"
      [] c = "c" -> "C"
      [] c = "d" -> "D"
      [] c = "e" -> "E"
      [] c = "f" -> "F"
      [] c = "g" -> "G"
      [] c = "h" -> "H"
      [] c = "i" -> "I"
      [] c = "j" -> "J"
      [] c = "k" -> "K"
      [] c = "l" -> "L"
      [] c = "m" -> "M"
      [] c = "n" -> "N"
      [] c = "o" -> "O"
      [] c = "p" -> "P"
      [] c = "q" -> "Q"
      [] c = "r" -> "R"
      [] c = "s" -> "S"
      [] c = "t" -> "T"
      [] c = "u" -> "U"
      [] c = "v" -> "V"
      [] c = "w" -> "W"
      [] c = "x" -> "X"
      [] c = "y" -> "Y"
      [] c = "z" -> "Z"

DataPrefix == <<"d", "a", "t", "a", "-">>
DataAction == <<"d", "a", "t", "a", "-", "a", "c", "t", "i", "o", "n">>
SellerReportForm == <<"d", "a", "t", "a", "-", "s", "e", "l", "l", "e", "r", "-", "r",
    "e", "p", "o", "r", "t", "-", "f", "o", "r", "m">>
IdAttr == <<"i", "d">>
SelectSuffix == <<"S", "e", "l", "e", "c", "t">>

\* the native event types the integration tracks, in setup order
TrackedTypes == {"click", "change", "keydown", "submit"}

\* the event names the integration emits
DomEventNames == <<"dom:action", "dom:action:error", "form:change",
                   "seller-report:change">>

\* String.prototype.startsWith, endsWith, slice(n)
startsWith(str, p) == Len(str) >= Len(p) /\ SubSeq(str, 1, Len(p)) = p

endsWith(str, p) ==
    Len(str) >= Len(p) /\ SubSeq(str, Len(str) - Len(p) + 1, Len(str)) = p

slice(str, n) == SubSeq(str, n + 1, Len(str))

\* str.replace(/-([a-z])/g, (_, letter) => letter.toUpperCase()), from index i
RECURSIVE replaceFrom(_, _)
replaceFrom(str, i) ==
    IF i > Len(str) THEN <<>>
    ELSE IF str[i] = "-" /\ i < Len(str) /\ str[i + 1] \in LowerCase
         THEN <<toUpperCase(str[i + 1])>> \o replaceFrom(str, i + 2)
         ELSE <<str[i]>> \o replaceFrom(str, i + 1)

\* Element.hasAttribute, Element.getAttribute; attrs = <<[name, value]>>
hasAttribute(el, name) == \E i \in 1..Len(el.attrs) : el.attrs[i].name = name

getAttribute(el, name) ==
    el.attrs[CHOOSE i \in 1..Len(el.attrs) : el.attrs[i].name = name].value

\* target.dataset.action is truthy: the attribute is there and not empty
datasetAction(el) ==
    hasAttribute(el, DataAction) /\ getAttribute(el, DataAction) # <<>>

\* the loop of parseDataAttributes over attributes i..Len(attrs)
RECURSIVE parseFrom(_, _, _)
parseFrom(attrs, i, data) ==
    IF i > Len(attrs) THEN data
    ELSE parseFrom(attrs, i + 1,
            IF startsWith(attrs[i].name, DataPrefix) /\ attrs[i].name # DataAction
            THEN MapSet(data, replaceFrom(slice(attrs[i].name, 5), 1),
                        attrs[i].value)
            ELSE data)

\* mutant: data-action is not left out of the parsed attributes
parseKeepsAction(el) ==
    LET skipNone[i \in 0..Len(el.attrs)] ==
            IF i = 0 THEN EmptyMap
            ELSE IF startsWith(el.attrs[i].name, DataPrefix)
                 THEN MapSet(skipNone[i - 1],
                             replaceFrom(slice(el.attrs[i].name, 5), 1),
                             el.attrs[i].value)
                 ELSE skipNone[i - 1]
    IN  skipNone[Len(el.attrs)]

parseDataAttributes(el) == parseFrom(el.attrs, 1, EmptyMap)

\* target.closest('[name]') along path = <<target, parent, ...>>: the index
\* of the nearest element that has the attribute, 0 for null
\* mutant: the outermost element with the attribute is taken, not the nearest
closestOutermost(path, name) ==
    IF \E i \in 1..Len(path) : hasAttribute(path[i], name)
    THEN CHOOSE i \in 1..Len(path) :
            /\ hasAttribute(path[i], name)
            /\ \A j \in (i + 1)..Len(path) : ~hasAttribute(path[j], name)
    ELSE 0

closest(path, name) ==
    IF \E i \in 1..Len(path) : hasAttribute(path[i], name)
    THEN CHOOSE i \in 1..Len(path) :
            /\ hasAttribute(path[i], name)
            /\ \A j \in 1..(i - 1) : ~hasAttribute(path[j], name)
    ELSE 0

\* target.matches('select[id$="Select"]')
matchesSelect(el) ==
    /\ el.tag = "select"
    /\ hasAttribute(el, IdAttr)
    /\ endsWith(getAttribute(el, IdAttr), SelectSuffix)

\* the emit calls of handleDataAction, handleFormChange and
\* handleSellerReportFormChange: <<[name, payload]>>
handleDataAction(el) ==
    IF ~datasetAction(el) THEN <<>>
    ELSE <<[name |-> "dom:action",
            payload |-> [action |-> getAttribute(el, DataAction),
                         element |-> el,
                         data |-> parseDataAttributes(el)]]>>

handleFormChange(el) ==
    <<[name |-> "form:change",
       payload |-> [element |-> el, value |-> el.value]]>>

handleSellerReportFormChange(el) ==
    <<[name |-> "seller-report:change",
       payload |-> [element |-> el, value |-> el.value]]>>

\* the handler createDelegatedHandler returns for an event type, run on an
\* event whose target and ancestors are path: the emit calls it makes
\* mutant: the change handler looks for the seller report form before it
\* looks at the select
delegatedHandlerSellerFirst(type, path) ==
    LET k == closest(path, DataAction)
        from == IF k # 0 THEN k ELSE 1
        sub == SubSeq(path, from, Len(path))
        el == sub[1]
    IN  IF datasetAction(el) THEN handleDataAction(el)
        ELSE IF type # "change" THEN <<>>
        ELSE IF closest(sub, SellerReportForm) # 0
        THEN handleSellerReportFormChange(el)
        ELSE IF matchesSelect(el) THEN handleFormChange(el)
        ELSE <<>>

delegatedHandler(type, path) ==
    LET k == closest(path, DataAction)
        from == IF k # 0 THEN k ELSE 1
        sub == SubSeq(path, from, Len(path))
        el == sub[1]
    IN  IF datasetAction(el) THEN handleDataAction(el)
        ELSE IF type # "change" THEN <<>>
        ELSE IF matchesSelect(el) THEN handleFormChange(el)
        ELSE IF closest(sub, SellerReportForm) # 0
        THEN handleSellerReportFormChange(el)
        ELSE <<>>

\* integration.connect()
\* mutant: connect does not test the connected flag
ConnectNoGuard ==
    /\ root' = root \cup {[type |-> t, handler |-> setups + 1] : t \in TrackedTypes}
    /\ boundHandlers' = [t \in TrackedTypes |-> setups + 1]
    /\ connected' = TRUE
    /\ setups' = setups + 1
    /\ last' = [op |-> "connect", args |-> <<>>, ret |-> <<>>, threw |-> FALSE]
    /\ UNCHANGED <<dispatched, domEmits>>

Connect ==
    /\ IF connected
       THEN UNCHANGED <<root, boundHandlers, connected, setups>>
       ELSE /\ root' = root \cup {[type |-> t, handler |-> setups + 1] :
                                    t \in TrackedTypes}
            /\ boundHandlers' = [t \in TrackedTypes |-> setups + 1]
            /\ connected' = TRUE
            /\ setups' = setups + 1
    /\ last' = [op |-> "connect", args |-> <<>>, ret |-> <<>>, threw |-> FALSE]
    /\ UNCHANGED <<dispatched, domEmits>>

\* integration.disconnect()
Disconnect ==
    /\ IF ~connected
       THEN UNCHANGED <<root, boundHandlers, connected>>
       ELSE /\ root' = root \ {[type |-> t, handler |-> boundHandlers[t]] :
                                  t \in DOMAIN boundHandlers}
            /\ boundHandlers' = EmptyMap
            /\ connected' = FALSE
    /\ last' = [op |-> "disconnect", args |-> <<>>, ret |-> <<>>,
                threw |-> FALSE]
    /\ UNCHANGED <<setups, dispatched, domEmits>>

\* the emit calls of one run of a handler, as the bus answers them; the
\* promise emit returns is dropped: it is neither awaited nor given a catch
emitted(calls, ev, outs) ==
    [i \in 1..Len(calls) |->
        [ev |-> ev, name |-> calls[i].name, payload |-> calls[i].payload,
         promise |-> emitImmediate(registeredEvents, listeners,
                                   calls[i].name, calls[i].payload, outs).out,
         awaited |-> FALSE]]

\* the handlers the document holds for a type are run n times over
RECURSIVE runHandlers(_, _)
runHandlers(n, records) ==
    IF n = 0 THEN <<>> ELSE records \o runHandlers(n - 1, records)

\* document.dispatchEvent(event) for a native event of the given type whose
\* target and ancestors are path; outs = what the bus listeners do
DispatchEvent(type, path, outs) ==
    /\ \A i \in 1..Len(DomEventNames) :
          debounceDelay(defaultDebounceConfig, DomEventNames[i], NoOpt) = 0
    /\ domEmits' = domEmits \o
          runHandlers(Cardinality({h \in root : h.type = type}),
                      emitted(delegatedHandler(type, path), dispatched + 1, outs))
    /\ dispatched' = dispatched + 1
    /\ last' = [op |-> "dispatchEvent", args |-> <<type, path>>, ret |-> TRUE,
                threw |-> FALSE]
    /\ UNCHANGED <<connected, boundHandlers, root, setups>>

\* the elements of the page: event targets with or without data-action and
\* with some further attributes, inside a container or not
ExtraAttrs ==
    {[name |-> DataPrefix \o <<"u", "s", "e", "r", "-", "i", "d">>,
      value |-> <<"4", "2">>],
     [name |-> DataPrefix \o <<"a", "-", "1">>, value |-> <<"x">>],
     [name |-> DataPrefix \o <<"-", "a", "-">>, value |-> <<>>],
     [name |-> IdAttr, value |-> <<"c">> \o SelectSuffix],
     [name |-> IdAttr, value |-> SelectSuffix \o <<"s">>]}

AttrLists(n) ==
    {l \in UNION {[1..k -> ExtraAttrs] : k \in 0..n} :
        \A i, j \in 1..Len(l) : i # j => l[i].name # l[j].name}

ActionAttrs ==
    {<<>>,
     <<[name |-> DataAction, value |-> <<>>]>>,
     <<[name |-> DataAction, value |-> <<"s", "a", "v", "e">>]>>}

Targets ==
    {[tag |-> t, attrs |-> a \o x, value |-> <<"v">>] :
        t \in {"button", "select"}, a \in ActionAttrs,
        x \in AttrLists(DomMaxAttrs)}

Ancestors ==
    {<<>>,
     <<[tag |-> "div",
        attrs |-> <<[name |-> DataAction, value |-> <<"o", "p", "e", "n">>],
                    [name |-> DataPrefix \o <<"i", "d">>, value |-> <<"7">>]>>,
        value |-> <<>>]>>,
     <<[tag |-> "form",
        attrs |-> <<[name |-> SellerReportForm, value |-> <<>>]>>,
        value |-> <<>>]>>}

Paths == {<<t>> \o a : t \in Targets, a \in Ancestors}

\* a step of the integration and the document
OnlyIntegration ==
    UNCHANGED <<defaultDebounceConfig, debouncedEmits, timer, attached,
                emits, window, globalVars, listeners, registeredEvents,
                reqVars, flight>>

\* a step of the integration whose handlers emit during the dispatch: no
\* timeout is ever set
OnlyDom == OnlyIntegration /\ UNCHANGED changeTimeouts

\* the integration is constructed for a bus on which either all or none of
\* the events it emits are registered, each with one listener
InitIntegration ==
    /\ \E n \in {0, Len(DomEventNames)} :
          LET st == registerLoop(
                       [ls |-> EmptyMap, reg |-> <<>>, cfg |-> EmptyMap],
                       [i \in 1..n |-> [event |-> DomEventNames[i],
                                        listener |-> "function",
                                        debounce |-> 0]],
                       [i \in 1..n |-> 1], 0, 1)
          IN  /\ listeners = st.ls
              /\ registeredEvents = st.reg
              /\ defaultDebounceConfig = st.cfg
              /\ attached = n
    /\ debouncedEmits = EmptyMap
    /\ timer = [e \in Events |-> NoTimer]
    /\ emits = <<>>
    /\ window = [e \in Events |-> NoTimer]
    /\ last = NoCall
    /\ InitGlobal
    /\ InitDom
    /\ InitRequest
    /\ InitFlight

NextDom ==
    \/ setups < DomMaxSetups /\ Connect /\ OnlyDom
    \/ Disconnect /\ OnlyDom
    \/ \E type \in TrackedTypes, path \in Paths :
          \E outs \in [1..1 -> {"fulfilled", "rejected"}] :
             /\ dispatched < DomMaxNative
             /\ DispatchEvent(type, path, outs)
             /\ OnlyDom

SpecDom == InitIntegration /\ [][NextDom]_vars

\* a burst of native events: the events follow each other with no step by
\* which time passes, so all of them fall within any one window of 150ms
BurstTypes == {"change", "click", "submit"}

BurstPaths ==
    {p \in Paths :
        /\ p[1].tag = "select"
        /\ Len(p[1].attrs) <= 1
        /\ \A i \in 1..Len(p[1].attrs) : p[1].attrs[i].name \in {DataAction, IdAttr}
        /\ Len(p) = 2 => p[2].tag = "form"}

NextBurst ==
    \/ setups < 1 /\ Connect /\ OnlyDom
    \/ Disconnect /\ OnlyDom
    \/ \E type \in BurstTypes, path \in BurstPaths :
          /\ dispatched < BurstMaxNative
          /\ DispatchEvent(type, path, [i \in 1..1 |-> "fulfilled"])
          /\ OnlyDom

SpecDomBurst == InitIntegration /\ [][NextBurst]_vars

\* ------------------------------------ faults while an action is handled
\* handleDataAction with its try/catch; fault = parseDataAttributes throws
\* for this element. [calls, threw]: the emit calls made, and whether the
\* exception leaves the handler.
\* mutant: no try/catch around the body
handleDataActionNoTry(el, fault) ==
    IF ~datasetAction(el) THEN [calls |-> <<>>, threw |-> FALSE]
    ELSE IF fault THEN [calls |-> <<>>, threw |-> TRUE]
    ELSE [calls |-> handleDataAction(el), threw |-> FALSE]

handleDataActionTry(el, fault) ==
    IF ~datasetAction(el) THEN [calls |-> <<>>, threw |-> FALSE]
    ELSE IF fault
    THEN [calls |-> <<[name |-> "dom:action:error",
                       payload |-> [error |-> "Error", target |-> el]]>>,
          threw |-> FALSE]
    ELSE [calls |-> handleDataAction(el), threw |-> FALSE]

\* the delegated handler of an event type run on an event whose target and
\* ancestors are path, parseDataAttributes throwing or not
delegatedHandlerTry(type, path, fault) ==
    LET k == closest(path, DataAction)
        el == path[IF k # 0 THEN k ELSE 1]
    IN  IF datasetAction(el) THEN handleDataActionTry(el, fault)
        ELSE [calls |-> delegatedHandler(type, path), threw |-> FALSE]

\* document.dispatchEvent(event) as DispatchEvent, with the fault as input
DispatchFaulty(type, path, fault, outs) ==
    /\ \A i \in 1..Len(DomEventNames) :
          debounceDelay(defaultDebounceConfig, DomEventNames[i], NoOpt) = 0
    /\ LET ran == Cardinality({h \in root : h.type = type})
           h == delegatedHandlerTry(type, path, fault)
       IN  /\ domEmits' = domEmits \o
                  runHandlers(ran, emitted(h.calls, dispatched + 1, outs))
           /\ last' = [op |-> "dispatchEvent", args |-> <<type, path, fault>>,
                       ret |-> TRUE, threw |-> ran > 0 /\ h.threw]
    /\ dispatched' = dispatched + 1
    /\ UNCHANGED <<connected, boundHandlers, root, setups>>

NextFault ==
    \/ setups < 1 /\ Connect /\ OnlyDom
    \/ Disconnect /\ OnlyDom
    \/ \E type \in TrackedTypes, path \in BurstPaths, fault \in BOOLEAN :
          \E outs \in [1..1 -> {"fulfilled", "rejected"}] :
             /\ dispatched < FaultMaxNative
             /\ DispatchFaulty(type, path, fault, outs)
             /\ OnlyDom

SpecDomFault == InitIntegration /\ [][NextFault]_vars

\* ------------- the integration whose change handler is debounced
\* (src/unnamed/part_013): setupDOMEventListeners wraps the change handler
\* in debounce(..., 150); one tick is 75ms
ChangeWait == 2

\* what the handler of createDelegatedHandler passes on: the nearest element
\* that has data-action, else the target, here with its ancestors
delegatedTarget(path) ==
    LET k == closest(path, DataAction)
    IN  SubSeq(path, IF k # 0 THEN k ELSE 1, Len(path))

\* the function debounce wraps, run on the element sub[1]: the emit calls
\* it makes
changeHandler(sub) ==
    LET el == sub[1]
    IN  IF datasetAction(el) THEN handleDataAction(el)
        ELSE IF matchesSelect(el) THEN handleFormChange(el)
        ELSE IF closest(sub, SellerReportForm) # 0
        THEN handleSellerReportFormChange(el)
        ELSE <<>>

\* the handler of an event type other than change, run on sub[1]
actionHandler(sub) ==
    IF datasetAction(sub[1]) THEN handleDataAction(sub[1]) ELSE <<>>

\* debouncedChangeHandler(target, event) of the setups in hs: clearTimeout
\* and setTimeout(() => func(target, event), 150)
debouncedChangeHandler(ts, hs, sub, ev) ==
    [h \in (DOMAIN ts) \cup hs |->
        IF h \in hs THEN [left |-> ChangeWait, sub |-> sub, ev |-> ev]
        ELSE ts[h]]

\* document.dispatchEvent(event): click, keydown and submit emit during the
\* dispatch, change only arms the timeout of the debounced handler
DispatchEventDebounced(type, path, outs) ==
    /\ \A i \in 1..Len(DomEventNames) :
          debounceDelay(defaultDebounceConfig, DomEventNames[i], NoOpt) = 0
    /\ IF type = "change"
       THEN /\ changeTimeouts' =
                  debouncedChangeHandler(changeTimeouts,
                      {r.handler : r \in {h \in root : h.type = type}},
                      delegatedTarget(path), dispatched + 1)
            /\ UNCHANGED domEmits
       ELSE /\ domEmits' = domEmits \o
                  runHandlers(Cardinality({h \in root : h.type = type}),
                      emitted(actionHandler(delegatedTarget(path)),
                              dispatched + 1, outs))
            /\ UNCHANGED changeTimeouts
    /\ dispatched' = dispatched + 1
    /\ last' = [op |-> "dispatchEvent", args |-> <<type, path>>, ret |-> TRUE,
                threw |-> FALSE]
    /\ UNCHANGED <<connected, boundHandlers, root, setups>>

\* the timeout of the debounced change handler of setup h runs:
\* func(target, event); nothing but clearTimeout in a later call of the
\* same debounced handler cancels it
TimeoutChange(h, outs) ==
    /\ h \in DOMAIN changeTimeouts
    /\ changeTimeouts[h].left = 0
    /\ \A i \in 1..Len(DomEventNames) :
          debounceDelay(defaultDebounceConfig, DomEventNames[i], NoOpt) = 0
    /\ domEmits' = domEmits \o
          emitted(changeHandler(changeTimeouts[h].sub), changeTimeouts[h].ev, outs)
    /\ changeTimeouts' = MapDelete(changeTimeouts, h)
    /\ last' = [op |-> "timeout", args |-> <<h>>, ret |-> <<>>, threw |-> FALSE]
    /\ UNCHANGED <<connected, boundHandlers, root, setups, dispatched>>

\* one unit of time passes; a due timeout stays due until it runs
TickChange ==
    /\ \E h \in DOMAIN changeTimeouts : changeTimeouts[h].left > 0
    /\ changeTimeouts' = [h \in DOMAIN changeTimeouts |-> Elapse(changeTimeouts[h])]
    /\ UNCHANGED <<connected, boundHandlers, root, setups, dispatched,
                   domEmits, last>>

NextDomDebounced ==
    \/ setups < DebDomMaxSetups /\ Connect /\ OnlyDom
    \/ Disconnect /\ OnlyDom
    \/ \E type \in BurstTypes, path \in BurstPaths :
          /\ dispatched < DebDomMaxNative
          /\ DispatchEventDebounced(type, path, [i \in 1..1 |-> "fulfilled"])
          /\ OnlyIntegration
    \/ \E h \in 1..DebDomMaxSetups :
          TimeoutChange(h, [i \in 1..1 |-> "fulfilled"]) /\ OnlyIntegration
    \/ TickChange /\ OnlyIntegration

SpecDomDebounced == InitIntegration /\ [][NextDomDebounced]_vars

\* ------------------------------------ listeners that call the bus back
\* emitImmediate holds eventListeners, the array object that was the bucket
\* of the event when the dispatch began, and eventListeners.map visits the
\* indices below the length the array had then. flight = [e, arr, live, len,
\* k, inv, snap, acts]: arr = that array as it is now, live = it still is the
\* bucket of e in the listeners map, k = the index map visits next, inv = the
\* callbacks called so far; snap (the bucket when the dispatch began) and acts
\* (what the callbacks did, n = the number of the listener an on attached)
\* are history. A finished dispatch is kept in emits as [e, inv, added],
\* added = the listeners its callbacks attached to e.
InFlight == flight.e # NoEvent

\* what a callback may do with the bus while it runs
Reentries ==
    {[op |-> "none", e |-> NoEvent, id |-> 0]}
    \cup {[op |-> "clear", e |-> NoEvent, id |-> 0]}
    \cup {[op |-> "clearEvent", e |-> e, id |-> 0] : e \in Events}
    \cup {[op |-> o, e |-> e, id |-> id] : o \in {"on", "off"}, e \in Events, id \in Ids}

\* off called by a callback: filter builds a new array, which replaces the
\* bucket (or the key is deleted); the array the dispatch holds is untouched
\* mutant: off removes the listener from the bucket array itself (splice)
offInFlightSplice(fl, ls, e, id) ==
    IF e = fl.e /\ fl.live
    THEN [fl EXCEPT !.arr = filteredListeners(@, id),
                    !.live = Len(filteredListeners(fl.arr, id)) > 0]
    ELSE fl

offInFlight(fl, ls, e, id) ==
    IF e = fl.e /\ e \in DOMAIN ls
    THEN [fl EXCEPT !.live = FALSE]
    ELSE fl

\* on called by a callback: push onto the bucket array, which is the array
\* the dispatch holds while that array is still the bucket
onInFlight(fl, e, id, n) ==
    IF e = fl.e /\ fl.live
    THEN [fl EXCEPT !.arr = Append(@, [id |-> id, n |-> n])]
    ELSE fl

\* clearEvent called by a callback: the key is deleted from the map
clearEventInFlight(fl, e) ==
    IF e = fl.e THEN [fl EXCEPT !.live = FALSE] ELSE fl

\* clear called by a callback: the map is emptied
clearInFlight(fl) == [fl EXCEPT !.live = FALSE]

\* the bus after the callback's call act; st = [ls, reg, fl, n]
reenter(st, act) ==
    CASE act.op = "off" ->
            [st EXCEPT !.ls = off(st.ls, act.e, act.id),
                       !.fl = offInFlight(st.fl, st.ls, act.e, act.id)]
      [] act.op = "on" ->
            [st EXCEPT !.ls = on(st.ls, act.e, act.id, st.n + 1),
                       !.fl = onInFlight(st.fl, act.e, act.id, st.n + 1),
                       !.n = st.n + 1]
      [] act.op = "clearEvent" ->
            [st EXCEPT !.ls = MapDelete(st.ls, act.e),
                       !.reg = SetDelete(st.reg, act.e),
                       !.fl = clearEventInFlight(st.fl, act.e)]
      [] act.op = "clear" ->
            [st EXCEPT !.ls = EmptyMap,
                       !.reg = <<>>,
                       !.fl = clearInFlight(st.fl)]
      [] OTHER -> st

\* emitImmediate(e, data) up to the call of map: the registration check has
\* passed and the bucket is not empty
BeginEmit(e) ==
    /\ ~InFlight
    /\ isEventRegistered(e)
    /\ e \in DOMAIN listeners
    /\ Len(listeners[e]) > 0
    /\ flight' = [e |-> e, arr |-> listeners[e], live |-> TRUE,
                  len |-> Len(listeners[e]), k |-> 1, inv |-> <<>>,
                  snap |-> listeners[e], acts |-> <<>>]
    /\ UNCHANGED <<listeners, registeredEvents, defaultDebounceConfig,
                   debouncedEmits, timer, attached, emits, window>>

\* the call act as the history keeps it
Done(act) ==
    [op |-> act.op, e |-> act.e, id |-> act.id,
     n |-> IF act.op = "on" THEN attached + 1 ELSE 0]

\* one step of eventListeners.map: the element at index k, if the array has
\* one, is called; the callback calls the bus as act says and returns
\* mutant: a loop that reads the length of the array before every step
MapStepLiveLength(act) ==
    /\ InFlight
    /\ flight.k <= Len(flight.arr)
    /\ LET called == [flight EXCEPT
                        !.inv = Append(@, flight.arr[flight.k].n),
                        !.acts = Append(@, Done(act))]
           st == reenter([ls |-> listeners, reg |-> registeredEvents,
                          fl |-> called, n |-> attached], act)
       IN  /\ listeners' = st.ls
           /\ registeredEvents' = st.reg
           /\ attached' = st.n
           /\ flight' = [st.fl EXCEPT !.k = @ + 1]
    /\ UNCHANGED <<defaultDebounceConfig, debouncedEmits, timer, emits, window>>

MapStep(act) ==
    /\ InFlight
    /\ flight.k <= flight.len
    /\ IF flight.k <= Len(flight.arr)
       THEN LET called == [flight EXCEPT
                             !.inv = Append(@, flight.arr[flight.k].n),
                             !.acts = Append(@, Done(act))]
                st == reenter([ls |-> listeners, reg |-> registeredEvents,
                               fl |-> called, n |-> attached], act)
            IN  /\ listeners' = st.ls
                /\ registeredEvents' = st.reg
                /\ attached' = st.n
                /\ flight' = [st.fl EXCEPT !.k = @ + 1]
       ELSE /\ act.op = "none"
            /\ flight' = [flight EXCEPT !.k = @ + 1]
            /\ UNCHANGED <<listeners, registeredEvents, attached>>
    /\ UNCHANGED <<defaultDebounceConfig, debouncedEmits, timer, emits, window>>

\* map has returned; the promises are handed to Promise.all
EndMap ==
    /\ InFlight
    /\ flight.k > flight.len
    /\ flight' = NoFlight
    /\ emits' = Append(emits,
                       [e |-> flight.e, inv |-> flight.inv,
                        added |-> {flight.acts[i].n : i \in
                                     {j \in 1..Len(flight.acts) :
                                        /\ flight.acts[j].op = "on"
                                        /\ flight.acts[j].e = flight.e}}])
    /\ UNCHANGED <<listeners, registeredEvents, defaultDebounceConfig,
                   debouncedEmits, timer, attached, window>>

\* a step of the bus and of the dispatch in progress
OnlyBus == UNCHANGED <<last, globalVars, domVars, reqVars>>

NextReentrant ==
    \/ \E e \in Events, id \in Ids :
          /\ ~InFlight
          /\ attached < ReMaxAttach
          /\ RegisterEvents(<<[event |-> e, listener |-> "function",
                               debounce |-> 0]>>, <<id>>)
          /\ UNCHANGED flight
          /\ OnlyBus
    \/ \E e \in Events, id \in Ids :
          /\ ~InFlight
          /\ attached < ReMaxAttach
          /\ On(e, id)
          /\ UNCHANGED flight
          /\ OnlyBus
    \/ \E e \in DebEvents :
          /\ Len(emits) < ReMaxEmits
          /\ BeginEmit(e)
          /\ OnlyBus
    \/ \E act \in Reentries :
          /\ act.op = "on" => attached < ReMaxAttach
          /\ MapStep(act)
          /\ OnlyBus
    \/ EndMap /\ OnlyBus

SpecReentrant == Init /\ [][NextReentrant]_vars

\* ------------------------------------------------------------ simpleRequest
\* performance.now(): a time not before the last one read; two reads within
\* one tick of the clock give the same value
Now == {clock, clock + 1}

\* handler(fn, onSuccess) up to its await: the request takes the time as its
\* id and becomes the latest one; fn() is called and its promise awaited
Request(now) ==
    /\ now \in Now
    /\ clock' = now
    /\ latestRequestId' = now
    /\ requests' = Append(requests,
                          [id |-> now, st |-> "pending", out |-> "none", seen |-> 0])

\* the promise of request i settles and the handler resumes: a fulfilled
\* request whose id is still the latest id calls onSuccess, a rejected one
\* console.error; seen = the number of requests started by then
Resume(i, outcome) ==
    /\ i \in 1..Len(requests)
    /\ requests[i].st = "pending"
    /\ requests' = [requests EXCEPT ![i] =
                       [id |-> @.id,
                        st |-> outcome,
                        out |-> IF @.id = latestRequestId
                                THEN IF outcome = "fulfilled"
                                     THEN "onSuccess" ELSE "console.error"
                                ELSE "none",
                        seen |-> Len(requests)]]
    /\ UNCHANGED <<latestRequestId, clock>>

\* handler.destroy()
Destroy ==
    /\ latestRequestId' = 0
    /\ UNCHANGED <<requests, clock>>

\* a step of the request handler
OnlyRequest ==
    UNCHANGED <<listeners, registeredEvents, defaultDebounceConfig,
                debouncedEmits, timer, attached, emits, window, last,
                globalVars, domVars, flight>>

NextRequest ==
    \/ \E now \in Now :
          /\ Len(requests) < ReqMaxRequests
          /\ Request(now)
          /\ OnlyRequest
    \/ \E i \in 1..ReqMaxRequests, outcome \in {"fulfilled", "rejected"} :
          Resume(i, outcome) /\ OnlyRequest
    \/ Destroy /\ OnlyRequest

SpecRequest == Init /\ [][NextRequest]_vars

\* ------------------------------------------------------------ properties
\* the emit call c is dispatched to the listeners by this step
Dispatches(c) ==
    /\ c \in 1..Len(emits')
    /\ emits'[c].st = "run"
    /\ (c > Len(emits) \/ emits[c].st # "run")

Bucket(e) == IF e \in DOMAIN listeners THEN listeners[e] ELSE <<>>

IsPrefix(s, t) == Len(s) <= Len(t) /\ \A i \in 1..Len(s) : s[i] = t[i]

HasRejected(c) == \E k \in 1..Len(emits[c].inv) : emits[c].inv[k].st = "rejected"

\* C1: an emit call made while its event is not registered fails with
\* NotRegistered and none of its payload ever reaches a listener, whatever
\* debounce delay is in effect for the call.
C1_UnregisteredEmitFails ==
    \A c \in 1..Len(emits) :
        ~emits[c].reg => emits[c].ret = "NotRegistered" /\ Len(emits[c].inv) = 0

\* C2: when an emission is dispatched to a registered event, every listener
\* attached at that moment is called exactly once, with the emitted payload,
\* whatever the other listeners of the batch do (throw, reject, stay pending).
C2_EveryListenerInvokedOnce ==
    [][\A c \in 1..Len(emits') :
          (Dispatches(c) /\ isEventRegistered(emits'[c].e)) =>
             LET b == Bucket(emits'[c].e)
                 inv == emits'[c].inv
             IN  /\ Len(inv) = Len(b)
                 /\ \A l \in 1..Len(b) :
                       Cardinality({k \in 1..Len(inv) : inv[k].n = b[l].n}) = 1
                 /\ \A k \in 1..Len(inv) : inv[k].data = emits'[c].data]_vars

\* C2 witness: the first listener of a batch failed at once and a later
\* listener of the same batch was called all the same
C2_Witness ==
    \E c \in 1..Len(emits) :
        /\ Len(emits[c].inv) >= 2
        /\ emits[c].inv[1].st = "rejected"
        /\ emits[c].inv[2].st = "fulfilled"

\* C3 (as claimed): whenever a listener called for an emit call fails, the
\* promise returned by that emit call rejects with the error of a failing
\* listener.
C3_AnyFailureRejectsEmit ==
    \A c \in 1..Len(emits) :
        HasRejected(c) =>
            /\ emits[c].ret = "ListenerError"
            /\ \E k \in 1..Len(emits[c].inv) :
                  emits[c].inv[k].st = "rejected" /\ emits[c].inv[k].n = emits[c].err

\* C3 (amended): whenever a listener called for an emit call that is not
\* debounced fails, the promise returned by that emit call rejects with the
\* error of a failing listener.
C3_FailureRejectsImmediateEmit ==
    \A c \in 1..Len(emits) :
        (HasRejected(c) /\ ~emits[c].deb) =>
            /\ emits[c].ret = "ListenerError"
            /\ \E k \in 1..Len(emits[c].inv) :
                  emits[c].inv[k].st = "rejected" /\ emits[c].inv[k].n = emits[c].err

\* C3 witness: an immediate emit with two failing listeners and one that
\* succeeded has rejected
C3_Witness ==
    \E c \in 1..Len(emits) :
        /\ ~emits[c].deb
        /\ emits[c].ret = "ListenerError"
        /\ \E j, k, l \in 1..Len(emits[c].inv) :
              /\ j # k
              /\ emits[c].inv[j].st = "rejected"
              /\ emits[c].inv[k].st = "rejected"
              /\ emits[c].inv[l].st = "fulfilled"

\* C4 (as claimed): once the promise returned by emit has settled, every
\* listener called by that emission has completed.
C4_SettledOnlyAfterAllListeners ==
    \A c \in 1..Len(emits) :
        emits[c].ret # "pending" =>
            \A k \in 1..Len(emits[c].inv) : emits[c].inv[k].st # "pending"

\* C4 (amended): once the promise returned by an emit that is not debounced
\* has fulfilled, every listener called by that emission has completed
\* successfully.
C4_FulfilledOnlyAfterAllListeners ==
    \A c \in 1..Len(emits) :
        (~emits[c].deb /\ emits[c].ret = "ok") =>
            \A k \in 1..Len(emits[c].inv) : emits[c].inv[k].st = "fulfilled"

\* C4 witness: a fast listener of an immediate emit has finished, a slow one
\* has not, and emit's promise is still pending
C4_Witness ==
    \E c \in 1..Len(emits) :
        /\ ~emits[c].deb
        /\ emits[c].ret = "pending"
        /\ \E j, k \in 1..Len(emits[c].inv) :
              emits[c].inv[j].st = "fulfilled" /\ emits[c].inv[k].st = "pending"

\* C5: the listeners of one emission are called in the order in which they
\* were added (n numbers the attachments in the order of the on calls).
C5_InvokedInRegistrationOrder ==
    \A c \in 1..Len(emits) :
        \A j, k \in 1..Len(emits[c].inv) :
            j < k => emits[c].inv[j].n < emits[c].inv[k].n

\* C5 witness: three listeners were added, the second was removed, and an
\* emission called the first and then the third
C5_Witness ==
    \E c \in 1..Len(emits) :
        /\ Len(emits[c].inv) = 2
        /\ emits[c].inv[1].n = 1
        /\ emits[c].inv[2].n = 3

\* C6: whenever off(e, id) returns true, the listener count of e drops by
\* exactly one, and the bucket afterwards is the old bucket with one
\* listener, which had that id, taken out.
C6_OffRemovesExactlyOne ==
    [][\A e \in Events, id \in Ids :
          (Off(e, id) /\ offReturn(listeners, e, id)) =>
             /\ getListenerCount(e)' = getListenerCount(e) - 1
             /\ \E i \in 1..Len(Bucket(e)) :
                   /\ Bucket(e)[i].id = id
                   /\ Bucket(e)' = SubSeq(Bucket(e), 1, i - 1)
                                     \o SubSeq(Bucket(e), i + 1, Len(Bucket(e)))]_vars

\* C7: a registerEvents call that does not throw keeps every listener that
\* was attached before, appends one listener per entry to the bucket of the
\* entry's event, and leaves that event registered.
C7_RegistrationIsAdditive ==
    [][attached' > attached =>
          \A b \in BatchesOf(PlainEntries, MaxBatch) :
             \A ids \in [1..Len(b) -> Ids] :
                (~validateThrows(b) /\ RegisterEvents(b, ids)) =>
                   \A e \in Events :
                      LET k == Cardinality({i \in 1..Len(b) : b[i].event = e})
                      IN  /\ getListenerCount(e)' = getListenerCount(e) + k
                          /\ IsPrefix(Bucket(e), Bucket(e)')
                          /\ k > 0 => isEventRegistered(e)']_vars

\* C7 witness: an event that was registered three times has three listeners
\* and an emission of it called all three
C7_Witness ==
    \E c \in 1..Len(emits) :
        /\ isEventRegistered(emits[c].e)
        /\ getListenerCount(emits[c].e) = 3
        /\ Len(emits[c].inv) = 3

\* C8: after clear(), from any state, no event is registered and no event
\* has a listener.
C8_ClearEmptiesLedgerAndRegistry ==
    [][Clear =>
          /\ getRegisteredEvents' = <<>>
          /\ \A e \in Events : ~isEventRegistered(e)' /\ getListenerCount(e)' = 0]_vars

\* C8 witness: listeners were attached and dispatched to, and now nothing is
\* registered and no bucket is left
C8_Witness ==
    /\ attached >= 2
    /\ \E c \in 1..Len(emits) : Len(emits[c].inv) >= 2
    /\ getRegisteredEvents = <<>>
    /\ listeners = EmptyMap

\* C9: when an emit call follows a debounced emit call of the same event
\* within the delay that was in effect for that earlier call, the payload of
\* the earlier call is never delivered to a listener.
C9_BurstDeliversOnlyLast ==
    \A c \in 1..Len(emits) :
        emits[c].after # 0 => Len(emits[emits[c].after].inv) = 0

\* C10: a pending debounced emission fires when the delay that was in effect
\* for its emit call (override, else stored default) has elapsed.
C10_EffectiveDelayGoverns ==
    \A e \in Events : timer[e].call # 0 => timer[e] = window[e]

\* an entry the registration contract calls malformed
malformedEntry(r) ==
    r.event = NoEvent \/ r.event = NotAString \/ r.listener # "function"

\* C15: registerEvents throws for every batch that contains an entry whose
\* event name is missing, empty or not a string, or whose listener is not
\* callable.
C15_MalformedBatchThrows ==
    last.op = "registerEvents" =>
       LET b == last.args[1]
       IN  (\E i \in 1..Len(b) : malformedEntry(b[i])) => last.threw

\* C16: a registerEvents call that throws leaves the set of registered
\* events, every listener list and the stored default debounce delays as
\* they were before the call, wherever the malformed entry stands.
C16_ThrowingRegistrationHasNoEffect ==
    [][(/\ last'.op = "registerEvents"
        /\ last'.threw
        /\ \E ids \in [1..Len(last'.args[1]) -> Ids] :
              RegisterEventsCall(last'.args[1], ids))
       => UNCHANGED <<registeredEvents, listeners, defaultDebounceConfig>>]_vars

\* a call has thrown on its second entry; its first entry was well-formed,
\* carried a debounce delay and left no trace
C16_Witness ==
    /\ last.op = "registerEvents"
    /\ last.threw
    /\ LET b == last.args[1]
       IN  /\ Len(b) = 2
           /\ ~invalidRegistration(b[1])
           /\ invalidRegistration(b[2])
           /\ b[1].debounce > 0
           /\ ~isEventRegistered(b[1].event)
           /\ ~hasListeners(b[1].event)
           /\ b[1].event \notin DOMAIN defaultDebounceConfig

\* C17: registerEvents on a well-formed batch returns one id per entry, the
\* i-th id being the id of the listener attached for entry i, and
\* off(entry_i.event, ids[i]) removes that listener and no other.
C17_ReturnedIdsRemoveTheirListener ==
    [][(/\ last'.op = "registerEvents"
        /\ ~last'.threw
        /\ RegisterEventsCall(last'.args[1], last'.ret))
       => LET b == last'.args[1]
              ids == last'.ret
          IN  /\ Len(ids) = Len(b)
              /\ \A i \in 1..Len(b) :
                    LET e == b[i].event
                        after == off(listeners', e, ids[i])
                        rest == SelectSeq(listeners'[e],
                                          LAMBDA l : l.n # attached + i)
                    IN  /\ \E k \in 1..Len(listeners'[e]) :
                              listeners'[e][k] = [id |-> ids[i], n |-> attached + i]
                        /\ (IF e \in DOMAIN after THEN after[e] ELSE <<>>) = rest
                        /\ \A x \in (DOMAIN listeners') \ {e} :
                              x \in DOMAIN after /\ after[x] = listeners'[x]]_vars

\* C18: off and clearEvent never throw, in any state; when the event has no
\* listeners or none of its listeners has the id, off returns false and
\* leaves the ledger and every listener list unchanged.
C18_OffAndClearEventNeverThrow ==
    /\ [](/\ last.op \in {"off", "clearEvent"} => ~last.threw
          /\ \A e \in Events \cup {NotAString} :
                /\ ENABLED (ClearEventCall(e) /\ OneBus)
                /\ \A id \in Ids : ENABLED (OffCall(e, id) /\ OneBus))
    /\ [][(/\ last'.op = "off"
           /\ OffCall(last'.args[1], last'.args[2])
           /\ \A k \in 1..getListenerCount(last'.args[1]) :
                 listeners[last'.args[1]][k].id # last'.args[2])
          => /\ last'.ret = FALSE
             /\ UNCHANGED <<registeredEvents, listeners>>]_vars

\* off has returned false for an id that no listener of the event has, the
\* event having listeners
C18_Witness ==
    /\ last.op = "off"
    /\ last.ret = FALSE
    /\ ~last.threw
    /\ hasListeners(last.args[1])
    /\ \A k \in 1..getListenerCount(last.args[1]) :
          listeners[last.args[1]][k].id # last.args[2]

\* C19: an emit on a registered event that has no listener when it is
\* dispatched succeeds and invokes nothing.
C19_EmitWithoutListenersSucceeds ==
    [][\A c \in 1..Len(emits') :
          (/\ Dispatches(c)
           /\ isEventRegistered(emits'[c].e)
           /\ getListenerCount(emits'[c].e) = 0)
          => /\ emits'[c].out = "ok"
             /\ emits'[c].ret = "ok"
             /\ emits'[c].inv = <<>>]_vars

\* an emit on a registered event was dispatched to no listener and
\* succeeded, while a listener had been attached before
C19_Witness ==
    \E c \in 1..Len(emits) :
       /\ emits[c].reg
       /\ emits[c].st = "run"
       /\ emits[c].inv = <<>>
       /\ emits[c].ret = "ok"
       /\ attached > 0

\* C20: clearEvent(name) leaves name unregistered and without listeners,
\* and for every other event name the registration status and the listener
\* list, order included, are as before the call.
C20_ClearEventChangesOnlyThatName ==
    [][(/\ last'.op = "clearEvent"
        /\ ClearEventCall(last'.args[1]))
       => LET e == last'.args[1]
          IN  /\ ~SetHas(registeredEvents', e)
              /\ e \notin DOMAIN listeners'
              /\ \A x \in (ApiNames \cup DOMAIN listeners) \ {e} :
                    /\ SetHas(registeredEvents', x) <=> SetHas(registeredEvents, x)
                    /\ (x \in DOMAIN listeners') <=> (x \in DOMAIN listeners)
                    /\ x \in DOMAIN listeners => listeners'[x] = listeners[x]]_vars

\* clearEvent was the last call; its event is gone while another event is
\* still registered and still has its two listeners
C20_Witness ==
    /\ last.op = "clearEvent"
    /\ ~isEventRegistered(last.args[1])
    /\ ~hasListeners(last.args[1])
    /\ \E x \in Events \ {last.args[1]} :
          isEventRegistered(x) /\ getListenerCount(x) = 2

\* C11: all createEventBus calls made between two resetGlobalEventBus calls
\* return the same bus, so an event is registered as seen through one of the
\* returned references exactly when it is as seen through any other; calls
\* separated by a resetGlobalEventBus call return different buses.
C11_SingletonUntilReset ==
    \A i, j \in 1..Len(refs) :
       IF refs[i].epoch = refs[j].epoch
       THEN /\ refs[i].inst = refs[j].inst
            /\ \A e \in Events :
                  isEventRegisteredThrough(i, e) <=> isEventRegisteredThrough(j, e)
       ELSE refs[i].inst # refs[j].inst

\* two calls before a reset and one after it; the third call returned the
\* current bus, on which an event is registered that the bus of the first two
\* does not have
C11_Witness ==
    /\ Len(refs) = 3
    /\ refs[1].epoch = refs[2].epoch
    /\ refs[3].epoch > refs[2].epoch
    /\ refs[3].inst = globalEventBusInstance
    /\ isEventRegisteredThrough(3, "a")
    /\ ~isEventRegisteredThrough(1, "a")
    /\ ~isEventRegisteredThrough(2, "a")

\* the attributes of el that are data-* attributes other than data-action
otherDataAttrs(el) ==
    {i \in 1..Len(el.attrs) :
        startsWith(el.attrs[i].name, DataPrefix) /\ el.attrs[i].name # DataAction}

\* String.prototype.toLowerCase on one upper-case letter
toLowerCase(c) ==
    CASE c = "A" -> "a"
      [] c = "B" -> "b"
      [] c = "C" -> "c"
      [] c = "D" -> "d"
      [] c = "E" -> "e"
      [] c = "F" -> "f"
      [] c = "G" -> "g"
      [] c = "H" -> "h"
      [] c = "I" -> "i"
      [] c = "J" -> "j"
      [] c = "K" -> "k"
      [] c = "L" -> "l"
      [] c = "M" -> "m"
      [] c = "N" -> "n"
      [] c = "O" -> "o"
      [] c = "P" -> "p"
      [] c = "Q" -> "q"
      [] c = "R" -> "r"
      [] c = "S" -> "s"
      [] c = "T" -> "t"
      [] c = "U" -> "u"
      [] c = "V" -> "v"
      [] c = "W" -> "w"
      [] c = "X" -> "x"
      [] c = "Y" -> "y"
      [] c = "Z" -> "z"

\* a camel-cased key written back with dashes: "userId" gives "user-id"
RECURSIVE dashed(_)
dashed(key) ==
    IF key = <<>> THEN <<>>
    ELSE IF \E c \in LowerCase : toUpperCase(c) = Head(key)
         THEN <<"-", toLowerCase(Head(key))>> \o dashed(Tail(key))
         ELSE <<Head(key)>> \o dashed(Tail(key))

\* the native event dispatched last made the integration emit dom:action
\* exactly once, with the action and the other data-* attributes of the target
OneActionEmission ==
    LET el == last.args[2][1]
        mine == SelectSeq(domEmits, LAMBDA r : r.ev = dispatched)
    IN  /\ Len(mine) = 1
        /\ mine[1].name = "dom:action"
        /\ mine[1].payload.action = getAttribute(el, DataAction)
        /\ LET data == mine[1].payload.data
           IN  /\ Cardinality(DOMAIN data) = Cardinality(otherDataAttrs(el))
               /\ \A i \in otherDataAttrs(el) :
                     \E key \in DOMAIN data :
                        /\ dashed(key) = slice(el.attrs[i].name, 5)
                        /\ data[key] = el.attrs[i].value

\* C12: whatever connect and disconnect calls were made, the document holds
\* exactly 4 handlers of the integration, one for each of click, change,
\* keydown and submit, while isConnected() is true and none while it is
\* false; a repeated connect adds none, a repeated disconnect removes none.
C12_FourHandlersIffConnected ==
    IF connected
    THEN /\ Cardinality(root) = 4
         /\ \A t \in TrackedTypes : Cardinality({h \in root : h.type = t}) = 1
    ELSE root = {}

\* connected for the second time, after connect calls that did and did not
\* find the integration connected
C12_Witness ==
    /\ connected
    /\ setups = 2
    /\ last.op = "connect"
    /\ Cardinality(root) = 4

\* C13: while connected, a click on an element that carries data-action
\* yields exactly one dom:action emission, whose action is the data-action
\* value and whose data holds exactly the other data-* attributes of the
\* element, keyed by the camel-cased name after data-, with the raw values.
C13_ClickOnActionElementEmitsOnce ==
    (/\ last.op = "dispatchEvent"
     /\ connected
     /\ last.args[1] = "click"
     /\ hasAttribute(last.args[2][1], DataAction))
    => OneActionEmission

\* C13 (amended): the same for a click on an element whose data-action value
\* is not empty.
C13_ClickOnNonEmptyActionEmitsOnce ==
    (/\ last.op = "dispatchEvent"
     /\ connected
     /\ last.args[1] = "click"
     /\ hasAttribute(last.args[2][1], DataAction)
     /\ getAttribute(last.args[2][1], DataAction) # <<>>)
    => OneActionEmission

\* a click on <button data-action="save" data-user-id="42"> inside a
\* container that carries data-action itself, after a reconnect
C13_Witness ==
    /\ last.op = "dispatchEvent"
    /\ connected
    /\ setups = 2
    /\ last.args[1] = "click"
    /\ Len(last.args[2]) = 2
    /\ hasAttribute(last.args[2][2], DataAction)
    /\ datasetAction(last.args[2][1])
    /\ Cardinality(otherDataAttrs(last.args[2][1])) = 1
    /\ \E k \in 1..Len(domEmits) :
          /\ domEmits[k].ev = dispatched
          /\ domEmits[k].name = "dom:action"
          /\ domEmits[k].payload.data =
                [key \in {<<"u", "s", "e", "r", "I", "d">>} |-> <<"4", "2">>]

\* C14: no failure of an emit made by the integration (the emitted name
\* being unregistered, a listener throwing or rejecting) goes uncaught: the
\* integration catches it.
C14_DomEmitFailuresAreCaught ==
    \A k \in 1..Len(domEmits) :
       domEmits[k].promise \in {"NotRegistered", "ListenerError"}
       => domEmits[k].awaited

\* C21: an emit call that is not debounced is dispatched during the call
\* itself, so after every earlier such call of the same event and before
\* every later one: each listener gets the payloads in call order, and the
\* payload of each call once.
C21_ImmediateEmitsDispatchInCallOrder ==
    [][\A c \in 1..Len(emits') :
          (Dispatches(c) /\ ~emits'[c].deb) =>
             /\ c = Len(emits')
             /\ Len(emits') = Len(emits) + 1
             /\ \A d \in 1..(c - 1) :
                   (~emits[d].deb /\ emits[d].e = emits'[c].e) =>
                      /\ emits[d].st = "run"
                      /\ Len(emits'[d].inv) = Len(emits[d].inv)
                      /\ \A k \in 1..Len(emits[d].inv) :
                            /\ emits'[d].inv[k].n = emits[d].inv[k].n
                            /\ emits'[d].inv[k].data = emits[d].inv[k].data
             /\ isEventRegistered(emits'[c].e) =>
                   LET b == Bucket(emits'[c].e)
                       inv == emits'[c].inv
                   IN  /\ Len(inv) = Len(b)
                       /\ \A k \in 1..Len(inv) :
                             /\ inv[k].n = b[k].n
                             /\ inv[k].data = emits'[c].data]_vars

\* two emit calls without debounce were made one after the other while the
\* listener's promise from the first was still pending; the listener got
\* the first payload, then the second
C21_Witness ==
    \E c \in 1..Len(emits) : \E d \in (c + 1)..Len(emits) :
       /\ ~emits[c].deb /\ ~emits[d].deb
       /\ emits[c].e = emits[d].e
       /\ Len(emits[c].inv) = 1 /\ Len(emits[d].inv) = 1
       /\ emits[c].inv[1].st = "pending"
       /\ emits[c].inv[1].n = emits[d].inv[1].n
       /\ emits[c].inv[1].data = emits[c].data
       /\ emits[d].inv[1].data = emits[d].data
       /\ emits[c].data < emits[d].data

\* C22: on never changes the registration ledger, and an emit on a name
\* that is not registered fails with NotRegistered and reaches no listener
\* even when listeners were attached to the name with on.
C22_OnDoesNotRegister ==
    [][/\ \A e \in Events, id \in Ids :
             On(e, id) => registeredEvents' = registeredEvents
       /\ \A c \in 1..Len(emits') :
             (/\ c = Len(emits')
              /\ Len(emits') = Len(emits) + 1
              /\ ~isEventRegistered(emits'[c].e)
              /\ hasListeners(emits'[c].e))
             => /\ emits'[c].ret = "NotRegistered"
                /\ emits'[c].inv = <<>>]_vars

\* C26: in every reachable state the ids of the listeners of one event name
\* are pairwise distinct.
C26_ListenerIdsDistinctPerEvent ==
    \A e \in DOMAIN listeners :
       \A i, j \in 1..Len(listeners[e]) :
          i # j => listeners[e][i].id # listeners[e][j].id

\* C23: with a document available, isDOMIntegrationEnabled() is true after
\* every enableDOMIntegration() and false after every disableDOMIntegration(),
\* whatever enable, disable and resetGlobalEventBus calls came before (the
\* bus has one domIntegration field, so it owns at most one integration);
\* without a document no bus ever has an integration.
C23_EnabledAfterEnableDisabledAfterDisable ==
    IF hasDocument
    THEN /\ last.op = "enableDOMIntegration"
              => isDOMIntegrationEnabledThrough(last.args[1])
         /\ last.op = "disableDOMIntegration"
              => ~isDOMIntegrationEnabledThrough(last.args[1])
    ELSE \A i \in 1..Len(heap) : heap[i].dom = "undefined"

\* C24: of a burst of native change events only the last one is emitted as
\* form:change or seller-report:change (the two are debounced by 150ms), so
\* within a burst all such emissions stem from one native event; a click or
\* submit on an element with a data-action value is emitted as dom:action at
\* once, one emission per native event.
C24_ChangeBurstEmitsOnce ==
    /\ \A j, k \in 1..Len(domEmits) :
          (/\ domEmits[j].name \in {"form:change", "seller-report:change"}
           /\ domEmits[k].name \in {"form:change", "seller-report:change"})
          => domEmits[j].ev = domEmits[k].ev
    /\ (/\ last.op = "dispatchEvent"
        /\ connected
        /\ last.args[1] \in {"click", "submit"}
        /\ datasetAction(last.args[2][1]))
       => Len(SelectSeq(domEmits, LAMBDA r : r.ev = dispatched
                                             /\ r.name = "dom:action")) = 1

\* C25: onSuccess is called only for the request started last: a request
\* that settles after a later request was started on the same handler never
\* has its result passed to onSuccess, so of requests that overlap at most
\* one is answered, whatever the order in which they settle.
C25_OnSuccessOnlyForLatestRequest ==
    \A i \in 1..Len(requests) :
        requests[i].out = "onSuccess" => requests[i].seen = i

\* C27: a dispatch works on the bucket as it was when the dispatch began:
\* whatever the callbacks do with the bus meanwhile (off on themselves or on a
\* sibling, clearEvent, clear, on), the callbacks called so far are the
\* first ones of that bucket, each once and in order, and the dispatch ends
\* when all of them, the removed ones included, have been called.
C27_DispatchWorksOnListenersAtEmitStart ==
    InFlight =>
       /\ flight.len = Len(flight.snap)
       /\ Len(flight.inv) = flight.k - 1
       /\ \A i \in 1..Len(flight.inv) : flight.inv[i] = flight.snap[i].n

\* the first of three callbacks removed the second one with off, and the
\* second removed the bucket with clearEvent; all three have been called
C27_Witness ==
    /\ InFlight
    /\ flight.len = 3
    /\ flight.k = 4
    /\ flight.acts[1] = [op |-> "off", e |-> flight.e,
                         id |-> flight.snap[2].id, n |-> 0]
    /\ flight.snap[1].id # flight.snap[2].id
    /\ flight.acts[2].op = "clearEvent"
    /\ flight.acts[2].e = flight.e
    /\ flight.e \notin DOMAIN listeners
    /\ Len(flight.inv) = 3

\* C28: whatever on, registerEvents, off, clearEvent and clear calls were
\* made, every key of the listeners map has at least one listener: no event
\* name maps to an empty list.
C28_NoEmptyBucket ==
    \A e \in DOMAIN listeners : Len(listeners[e]) > 0

\* off has just removed the only listener of an event, and the key with it,
\* while another event keeps its listener
C28_Witness ==
    /\ last.op = "off"
    /\ last.ret = TRUE
    /\ last.args[1] \in Events
    /\ last.args[1] \notin DOMAIN listeners
    /\ DOMAIN listeners # {}

\* the index in path (target first, then its ancestors) of the nearest
\* element that has the attribute, 0 when there is none
Nearest(path, name) ==
    LET with == {i \in 1..Len(path) : hasAttribute(path[i], name)}
    IN  IF with = {} THEN 0 ELSE CHOOSE i \in with : \A j \in with : i <= j

\* the emit calls the integration made for the native event dispatched last
Mine == SelectSeq(domEmits, LAMBDA r : r.ev = dispatched)

\* the native event dispatched last made the integration emit nothing
\* (name = NoEvent) or just one event of that name, for the element el
EmitsJust(name, el) ==
    IF name = NoEvent THEN Mine = <<>>
    ELSE /\ Len(Mine) = 1
         /\ Mine[1].name = name
         /\ Mine[1].payload.element = el

\* C29: a native change event handled while connected makes at most one
\* emission: dom:action when the target or an ancestor carries data-action;
\* otherwise form:change when the target is a select whose id ends in
\* "Select"; otherwise seller-report:change when the target is inside a
\* [data-seller-report-form] container; otherwise nothing.
C29_ChangeEmitsByPriority ==
    (/\ last.op = "dispatchEvent"
     /\ connected
     /\ last.args[1] = "change")
    => LET path == last.args[2]
           k == Nearest(path, DataAction)
       IN  IF k # 0 THEN EmitsJust("dom:action", path[k])
           ELSE IF matchesSelect(path[1]) THEN EmitsJust("form:change", path[1])
           ELSE IF Nearest(path, SellerReportForm) # 0
           THEN EmitsJust("seller-report:change", path[1])
           ELSE EmitsJust(NoEvent, path[1])

\* C29 (amended): a native change event handled while connected makes at
\* most one emission. With E the nearest element, from the target upwards,
\* that carries data-action, or the target when there is none: dom:action
\* when the data-action value of E is not empty; otherwise form:change when E
\* is a select whose id ends in "Select"; otherwise seller-report:change when
\* E is, or is inside, a [data-seller-report-form] container; otherwise
\* nothing.
C29_ChangeEmitsByPriorityOfNearest ==
    (/\ last.op = "dispatchEvent"
     /\ connected
     /\ last.args[1] = "change")
    => LET path == last.args[2]
           k == Nearest(path, DataAction)
           e == IF k # 0 THEN k ELSE 1
           el == path[e]
       IN  IF hasAttribute(el, DataAction) /\ getAttribute(el, DataAction) # <<>>
           THEN EmitsJust("dom:action", el)
           ELSE IF matchesSelect(el) THEN EmitsJust("form:change", el)
           ELSE IF Nearest(SubSeq(path, e, Len(path)), SellerReportForm) # 0
           THEN EmitsJust("seller-report:change", el)
           ELSE EmitsJust(NoEvent, el)

\* a change of <select data-action="" id="cSelect"> inside a seller report
\* form is emitted as form:change
C29_Witness ==
    /\ last.op = "dispatchEvent"
    /\ connected
    /\ last.args[1] = "change"
    /\ Len(last.args[2]) = 2
    /\ hasAttribute(last.args[2][1], DataAction)
    /\ ~datasetAction(last.args[2][1])
    /\ matchesSelect(last.args[2][1])
    /\ hasAttribute(last.args[2][2], SellerReportForm)
    /\ Len(Mine) = 1
    /\ Mine[1].name = "form:change"

\* the native event dispatched last made the integration emit dom:action
\* just once, for the element el and with its data-action value
EmitsAction(el) ==
    /\ Len(Mine) = 1
    /\ Mine[1].name = "dom:action"
    /\ Mine[1].payload.element = el
    /\ Mine[1].payload.action = getAttribute(el, DataAction)

\* C30: a native click, keydown or submit event is emitted as dom:action if
\* and only if the target or one of its ancestors carries data-action; the
\* element and the action of the payload are those of the nearest such
\* element; without data-action on the target and its ancestors nothing is
\* emitted.
C30_ActionEmittedIffNearestCarriesAction ==
    (/\ last.op = "dispatchEvent"
     /\ connected
     /\ last.args[1] \in {"click", "keydown", "submit"})
    => LET path == last.args[2]
           k == Nearest(path, DataAction)
       IN  IF k # 0 THEN EmitsAction(path[k]) ELSE Mine = <<>>

\* C30 (amended): a native click, keydown or submit event is emitted as
\* dom:action if and only if the target or one of its ancestors carries
\* data-action and the data-action value of the nearest such element is not
\* empty; the element and the action of the payload are those of that nearest
\* element; in every other case nothing is emitted.
C30_ActionEmittedIffNearestHasValue ==
    (/\ last.op = "dispatchEvent"
     /\ connected
     /\ last.args[1] \in {"click", "keydown", "submit"})
    => LET path == last.args[2]
           k == Nearest(path, DataAction)
       IN  IF k # 0 /\ getAttribute(path[k], DataAction) # <<>>
           THEN EmitsAction(path[k])
           ELSE Mine = <<>>

\* a keydown on <button data-action="save"> inside <div data-action="open">
\* is emitted with the button and "save"
C30_Witness ==
    /\ last.op = "dispatchEvent"
    /\ connected
    /\ last.args[1] = "keydown"
    /\ Len(last.args[2]) = 2
    /\ datasetAction(last.args[2][1])
    /\ datasetAction(last.args[2][2])
    /\ getAttribute(last.args[2][1], DataAction) # getAttribute(last.args[2][2], DataAction)
    /\ Len(Mine) = 1
    /\ Mine[1].payload.action = getAttribute(last.args[2][1], DataAction)

\* C31: when building the dom:action payload of a matched element throws,
\* the integration emits dom:action:error with the error and the element
\* instead of dom:action, and the exception does not leave the native
\* handler; when nothing throws, dom:action:error is not emitted.
C31_PayloadFaultEmitsActionError ==
    (/\ last.op = "dispatchEvent"
     /\ connected)
    => LET path == last.args[2]
           k == Nearest(path, DataAction)
           el == path[IF k # 0 THEN k ELSE 1]
           matched == k # 0 /\ getAttribute(el, DataAction) # <<>>
       IN  /\ ~last.threw
           /\ IF last.args[3] /\ matched
              THEN /\ Len(Mine) = 1
                   /\ Mine[1].name = "dom:action:error"
                   /\ Mine[1].payload.target = el
                   /\ Mine[1].payload.error = "Error"
              ELSE \A i \in 1..Len(Mine) : Mine[i].name # "dom:action:error"

\* a submit whose action element made parseDataAttributes throw was answered
\* with dom:action:error, and the listener of that event was reached
C31_Witness ==
    /\ last.op = "dispatchEvent"
    /\ connected
    /\ last.args[1] = "submit"
    /\ last.args[3]
    /\ datasetAction(last.args[2][1])
    /\ Len(Mine) = 1
    /\ Mine[1].name = "dom:action:error"
    /\ Mine[1].promise = "ok"

\* the emit call c was made while its event was registered, is still waiting
\* for its timer, and the event has been removed by clear or clearEvent since
ClearedWhilePending(c) ==
    /\ c \in 1..Len(emits)
    /\ emits[c].st = "queued"
    /\ emits[c].reg
    /\ ~isEventRegistered(emits[c].e)

\* a listener has been called with the payload of the emit call c
Delivered(c) == c \in 1..Len(emits) /\ Len(emits[c].inv) > 0

\* C32: once clear() or clearEvent(e) has been called, no listener is ever
\* called with the payload of an emit(e, ...) made before: a debounced
\* emission that was pending then is never delivered, not even when e is
\* registered again before its timer fires.
C32_ClearDropsPendingEmissions ==
    \A c \in 1..MaxEmits :
        [](ClearedWhilePending(c) => []~Delivered(c))

\* this step is an emit call of the event b
EmitOf(b) == Len(emits') = Len(emits) + 1 /\ emits'[Len(emits')].e = b

\* C33: debounce state is kept per event: an emit of another event, debounced
\* or not, leaves a pending debounced emission as it is (same timer, same
\* time left, same payload); the pending emission is dispatched when its
\* timer fires unless an emit of its own event replaces it, and it is
\* dispatched once.
C33_DebouncePerEvent ==
    /\ [][\A a \in Events : \A b \in Events \ {a} :
            (timer[a].call # 0 /\ EmitOf(b)) =>
               /\ timer'[a] = timer[a]
               /\ emits'[timer[a].call] = emits[timer[a].call]]_vars
    /\ [][\A c \in 1..Len(emits) :
            (emits[c].deb /\ emits[c].st = "run") => emits'[c] = emits[c]]_vars
    /\ \A c \in 1..PerMaxEmits :
          (c \in 1..Len(emits) /\ emits[c].st = "queued")
             ~> (/\ c \in 1..Len(emits)
                 /\ \/ emits[c].st = "run" /\ Len(emits[c].inv) = 1
                    \/ emits[c].st = "dropped")

\* a debounced emission of a is pending, half of its delay gone, after b was
\* emitted both debounced and at once
C33_Witness ==
    /\ Len(emits) = 3
    /\ emits[1].e = "a"
    /\ emits[1].st = "queued"
    /\ timer["a"] = [call |-> 1, left |-> 1]
    /\ emits[1].eff = 2
    /\ emits[2].e = "b"
    /\ emits[2].deb
    /\ emits[3].e = "b"
    /\ ~emits[3].deb
    /\ emits[3].st = "run"

\* C34: an emit of e that is not debounced, made while a debounced emission
\* of e is pending, is dispatched during the call and leaves the pending
\* emission as it is (same timer, same time left, same payload, not yet
\* dispatched): the earlier payload reaches the listeners later, when its
\* timer fires, that is after the payload of the later call.
C34_ImmediateEmitKeepsPending ==
    [][\A e \in Events :
          (timer[e].call # 0 /\ EmitOf(e) /\ ~emits'[Len(emits')].deb) =>
             /\ emits'[Len(emits')].st = "run"
             /\ timer'[e] = timer[e]
             /\ emits[timer[e].call].st = "queued"
             /\ emits'[timer[e].call] = emits[timer[e].call]]_vars

\* the payload of the second call, emitted with an override of 0 while a
\* stored default delay is in effect, has reached the listener; the payload
\* of the first call is still waiting for its timer
C34_Witness ==
    /\ Len(emits) = 2
    /\ emits[1].deb
    /\ emits[1].st = "queued"
    /\ timer["a"].call = 1
    /\ "a" \in DOMAIN defaultDebounceConfig
    /\ defaultDebounceConfig["a"] > 0
    /\ ~emits[2].deb
    /\ emits[2].st = "run"
    /\ Len(emits[2].inv) = 1
    /\ emits[2].inv[1].data = 2

\* C35: clearEvent(e) returns true exactly when e had at least one listener
\* just before the call, and e is not registered afterwards in either case:
\* for an event that was registered without listeners it returns false
\* although it has removed the registration.
C35_ClearEventReturnsHadListeners ==
    [][last'.op = "clearEvent" =>
          LET e == last'.args[1]
          IN  /\ last'.ret = (getListenerCount(e) > 0)
              /\ ~SetHas(registeredEvents', e)
              /\ e \notin DOMAIN listeners']_vars

\* clearEvent has returned false for an event that was registered, and the
\* event is not registered any more
C35_Witness ==
    /\ last.op = "clearEvent"
    /\ last.was
    /\ ~last.ret
    /\ ~isEventRegistered(last.args[1])

\* C36: off(e, id) changes neither the registration ledger nor the stored
\* debounce delays: an event whose last listener was removed is still
\* registered, and getRegisteredEvents() answers as before.
C36_OffKeepsLedgerAndDelays ==
    [][last'.op = "off" =>
          /\ getRegisteredEvents' = getRegisteredEvents
          /\ defaultDebounceConfig' = defaultDebounceConfig
          /\ debouncedEmits' = debouncedEmits]_vars

\* off has removed the last listener of an event that is registered with a
\* default delay
C36_Witness ==
    /\ last.op = "off"
    /\ last.ret = TRUE
    /\ last.args[1] \notin DOMAIN listeners
    /\ isEventRegistered(last.args[1])
    /\ last.args[1] \in DOMAIN defaultDebounceConfig

\* C37: a listener that a callback attaches with on(e, ...) while an
\* emission of e is being dispatched is not called in that emission; it is
\* put behind the listeners attached before, and every emission of e that
\* starts afterwards calls the listeners of e as they are then, in that
\* order, so the new listener after the older ones.
C37_ListenerAttachedInFlightWaits ==
    /\ [](InFlight =>
            /\ \A i \in 1..Len(flight.acts) :
                  (flight.acts[i].op = "on" /\ flight.acts[i].e = flight.e) =>
                     \A j \in 1..Len(flight.inv) : flight.inv[j] # flight.acts[i].n
            /\ flight.k > flight.len =>
                  flight.inv = [i \in 1..Len(flight.snap) |-> flight.snap[i].n])
    /\ [][(InFlight /\ InFlight' /\ Len(flight'.acts) > Len(flight.acts)) =>
            LET act == flight'.acts[Len(flight'.acts)]
            IN  act.op = "on" =>
                   listeners'[act.e] =
                      Append(Bucket(act.e), [id |-> act.id, n |-> act.n])]_vars
    /\ [][(~InFlight /\ InFlight') =>
            flight'.snap = Bucket(flight'.e)]_vars

\* the second dispatch of an event has called a listener that a callback
\* of the first dispatch attached, after the listener that was there before
C37_Witness ==
    /\ InFlight
    /\ flight.k > flight.len
    /\ Len(emits) = 1
    /\ emits[1].e = flight.e
    /\ Len(emits[1].inv) = 1
    /\ Len(flight.inv) = 2
    /\ flight.inv[1] = emits[1].inv[1]
    /\ flight.inv[2] \in emits[1].added

\* the listeners of e on a bus of the heap
BucketOf(b, e) == IF e \in DOMAIN b.ls THEN b.ls[e] ELSE <<>>

\* the call createEventBus(d, {defaultDebounce: dd}) made in this step found
\* the global bus in place and returned; all that was registered and attached
\* is kept, and every entry of d has added one listener to its event
AppliedToInstance(d) ==
    LET g == globalEventBusInstance
        b == heap[g]
        c == heap'[g]
    IN  /\ globalEventBusInstance' = g
        /\ Len(heap') = Len(heap)
        /\ \A e \in Events :
              /\ IsPrefix(BucketOf(b, e), BucketOf(c, e))
              /\ Len(BucketOf(c, e)) =
                    Len(BucketOf(b, e))
                      + Cardinality({i \in 1..Len(d) : d[i].event = e})
              /\ SetHas(b.reg, e) => SetHas(c.reg, e)
        /\ \A i \in 1..Len(d) : SetHas(c.reg, d[i].event)
        /\ \A x \in DOMAIN b.cfg : x \in DOMAIN c.cfg

\* C38: a createEventBus(defaultEvents, options) call made while the global
\* instance exists is applied to that instance: every entry of defaultEvents
\* is registered again (one more listener of its event per call, nothing
\* replaced), every options.defaultDebounce entry is the stored default
\* afterwards, and what was registered and attached before is kept.
C38_SecondCallAppliesToInstance ==
    [][(/\ last'.op = "createEventBus"
        /\ ~last'.threw
        /\ globalEventBusInstance # 0) =>
          LET d == last'.args[1]
              dd == last'.args[2]
          IN  /\ AppliedToInstance(d)
              /\ \A x \in DOMAIN dd :
                    heap'[globalEventBusInstance].cfg[x] = dd[x]]_vars

\* C38 (amended): the same, but an options.defaultDebounce entry is the
\* stored default afterwards only if no entry of defaultEvents brings a
\* debounce delay of its own for that event; if one does, the delay of the
\* last such entry is the stored default.
C38_SecondCallAppliesOptionsThenEntries ==
    [][(/\ last'.op = "createEventBus"
        /\ ~last'.threw
        /\ globalEventBusInstance # 0) =>
          LET d == last'.args[1]
              dd == last'.args[2]
          IN  /\ AppliedToInstance(d)
              /\ \A x \in DOMAIN dd :
                    LET own == {i \in 1..Len(d) :
                                  d[i].event = x /\ d[i].debounce > 0}
                    IN  heap'[globalEventBusInstance].cfg[x] =
                           IF own = {} THEN dd[x]
                           ELSE d[CHOOSE i \in own : \A j \in own : j <= i].debounce]_vars

\* the second createEventBus call has registered its entry on the bus of the
\* first call, whose listener is kept, and has replaced the stored default
C38_Witness ==
    /\ last.op = "createEventBus"
    /\ ~last.threw
    /\ Len(last.args[1]) = 1
    /\ last.args[2] # EmptyMap
    /\ Len(refs) = 2
    /\ Len(heap) = 1
    /\ resets = 0
    /\ Len(BucketOf(heap[1], "a")) = 2
    /\ "a" \in DOMAIN heap[1].cfg
    /\ heap[1].cfg["a"] = 1

\* C39: after disconnect() has returned and until the next connect() the
\* integration makes no emit call, and no emit call stems from a native
\* event received before a disconnect, a change whose debounced handling
\* was pending included: every emit call is made while the integration is
\* connected, and one made by a timeout is made by the change handler that
\* is bound then.
C39_NoEmissionAfterDisconnect ==
    [][Len(domEmits') > Len(domEmits) =>
          /\ connected
          /\ last'.op = "timeout" =>
                /\ "change" \in DOMAIN boundHandlers
                /\ boundHandlers["change"] = last'.args[1]]_vars

====
